---- MODULE Spec2Model ----
(***************************************************************************)
(* The in-page capture engine of the performance-tracker extension         *)
(* (src/src/content/injected.ts) as a state machine: one page context, the *)
(* script that is injected into it, the browser events it listens to, its  *)
(* timers, its patched network primitives and the messages it posts.       *)
(*                                                                         *)
(* The page runs one handler at a time (one event loop), so every action   *)
(* below is one whole handler.  The functions of the script are operators  *)
(* from a page state to a page state, composed as the handler calls them.  *)
(***************************************************************************)
EXTENDS Integers, Sequences, FiniteSets, TLC

VARIABLES
    st,     \* the page context: window guards, script variables, listeners, timers, posted messages
    calls,  \* the network calls of the host page, each with the position of its wrapper
    hist    \* how many environment events have happened (bounds the run) and what the page saw

vars == <<st, calls, hist>>

-----------------------------------------------------------------------------
(* Bounds of the model *)

MaxInject == 2      \* script injections into the page context
MaxMsgs == 2        \* CONFIG messages the page's own window delivers
MaxSpaNav == 1      \* pushState / replaceState / popstate events
MaxUnload == 1      \* beforeunload events (a cancelled navigation fires it again)
MaxCalls == 1       \* network calls the host page makes
MaxEntries == 3     \* performance entry lists delivered to the observers
MaxQueued == 25     \* metrics queued in a burst of tracked calls
MaxExpiries == 1    \* expiries of the batch timer
MaxUrlLen == 3      \* characters of a request URL
MaxStoreOps == 3    \* persistence operations the background starts
MaxInFlight == 2    \* CONFIG messages posted and not yet dispatched
MaxCancelled == 1   \* unloads the user cancels
MaxPending == 2     \* tracked calls that end around the finalize triggers

(* Program constants *)

apiBatchMaxSize == 20

-----------------------------------------------------------------------------
(* Values *)

\* Math.random() is in [0, 1); rates and random draws are in hundredths.
RandomValues == {0, 50, 99}

\* A CONFIG payload as sent: a number is [finite, v]; a flag is the JS value
\* as text ("true", "false", or a non-boolean such as "1").
PayloadDefault ==
    [samplingRate |-> [finite |-> TRUE, v |-> 100], extensionMode |-> "dev",
     versionTag |-> [isString |-> TRUE, v |-> ""], apiTrackingEnabled |-> "true",
     redactQueryParams |-> "true", privacyMode |-> "false"]

PayloadHalf ==
    [samplingRate |-> [finite |-> TRUE, v |-> 50], extensionMode |-> "silent",
     versionTag |-> [isString |-> TRUE, v |-> "v2"], apiTrackingEnabled |-> "true",
     redactQueryParams |-> "false", privacyMode |-> "true"]

PayloadOdd ==
    [samplingRate |-> [finite |-> FALSE, v |-> 0], extensionMode |-> "verbose",
     versionTag |-> [isString |-> FALSE, v |-> ""], apiTrackingEnabled |-> "1",
     redactQueryParams |-> "false", privacyMode |-> "false"]

Payloads == {PayloadDefault, PayloadHalf, PayloadOdd}

\* Sampling rates a CONFIG payload can carry, in hundredths: -1, 0, 0.5, 1, 2
\* and a non-finite value (NaN, undefined, a string).
SamplingRates ==
    {[finite |-> TRUE, v |-> r] : r \in {-100, 0, 50, 100, 200}}
    \cup {[finite |-> FALSE, v |-> 0]}

\* Values a flag of a CONFIG payload can carry.
FlagValues == {"true", "false", "1"}

\* Payloads with every rate, three modes and every value of the tracking
\* flag; the two URL flags carry one value.
RawPayloads ==
    {[samplingRate |-> r, extensionMode |-> m,
      versionTag |-> [isString |-> TRUE, v |-> ""],
      apiTrackingEnabled |-> a, redactQueryParams |-> f, privacyMode |-> f] :
        r \in SamplingRates, m \in {"dev", "silent", "verbose"},
        a \in FlagValues, f \in FlagValues}

\* A message event: where it comes from, whether its data is an object, the
\* data's type, and its payload (absent when hasPayload is FALSE).
Messages ==
    {[source |-> "window", isObject |-> TRUE, type |-> "PERF_MONITOR_CONFIG",
      hasPayload |-> TRUE, payload |-> p] : p \in Payloads}
    \cup
    {[source |-> "window", isObject |-> TRUE, type |-> "PERF_MONITOR_CONFIG",
      hasPayload |-> FALSE, payload |-> PayloadDefault],
     [source |-> "frame", isObject |-> TRUE, type |-> "PERF_MONITOR_CONFIG",
      hasPayload |-> TRUE, payload |-> PayloadDefault],
     [source |-> "window", isObject |-> TRUE, type |-> "PERF_MONITOR_API_BATCH",
      hasPayload |-> TRUE, payload |-> PayloadOdd],
     [source |-> "window", isObject |-> FALSE, type |-> "",
      hasPayload |-> FALSE, payload |-> PayloadDefault]}

NullConfig == [isNull |-> TRUE]

\* Responses of the underlying fetch: status, type, content-length header
\* ("" when absent), x-cache header, size of the body.
Responses ==
    {[status |-> 200, type |-> "basic", contentLength |-> "5", xCache |-> "hit", bodySize |-> 5],
     [status |-> 404, type |-> "basic", contentLength |-> "", xCache |-> "", bodySize |-> 3],
     [status |-> 0, type |-> "opaque", contentLength |-> "", xCache |-> "", bodySize |-> 0]}

\* Errors the underlying fetch rejects with.
Errors == {"TypeError: Failed to fetch", "AbortError"}

NoResponse == [status |-> -1, type |-> "none", contentLength |-> "", xCache |-> "", bodySize |-> 0]

FetchOutcomes ==
    {[kind |-> "response", response |-> r, error |-> ""] : r \in Responses}
    \cup {[kind |-> "error", response |-> NoResponse, error |-> e] : e \in Errors}

\* What an XMLHttpRequest shows at loadend (status 0: the request failed).
XhrOutcomes ==
    {[kind |-> "response", error |-> "",
      response |-> [status |-> 200, type |-> "basic", contentLength |-> "", xCache |-> "", bodySize |-> 4]],
     [kind |-> "response", error |-> "",
      response |-> [status |-> 200, type |-> "basic", contentLength |-> "", xCache |-> "HIT", bodySize |-> 4]],
     [kind |-> "response", error |-> "",
      response |-> [status |-> 0, type |-> "basic", contentLength |-> "", xCache |-> "", bodySize |-> 0]]}

\* Request URLs: strings over a path character and the query separator.
UrlChars == {"a", "?"}

Urls == UNION {[1..n -> UrlChars] : n \in 0..MaxUrlLen}

\* What crypto.subtle.digest does when it is called.
DigestOutcomes == {"digest", "throws"}

\* Configurations with every combination of the two URL flags.
UrlPayloads ==
    {[PayloadDefault EXCEPT !.redactQueryParams = r, !.privacyMode = p] :
        r \in {"true", "false"}, p \in {"true", "false"}}

\* Entry lists the layout-shift observer is called with (values in hundredths).
LayoutShiftLists ==
    {<<[value |-> 1, hadRecentInput |-> FALSE], [value |-> 2, hadRecentInput |-> TRUE],
       [value |-> 3, hadRecentInput |-> FALSE]>>,
     <<[value |-> 2, hadRecentInput |-> TRUE]>>}

\* Entry lists the long-task observer is called with (milliseconds).
LongTaskLists ==
    {<<[startTime |-> 1100, duration |-> 200], [startTime |-> 7000, duration |-> 100]>>,
     <<[startTime |-> 900, duration |-> 100], [startTime |-> 6000, duration |-> 100]>>,
     <<[startTime |-> 900, duration |-> 200], [startTime |-> 1100, duration |-> 50]>>}

\* A slot of the sessions store without a record.
NoRecord ==
    [present |-> FALSE, versionTag |-> "", navigationType |-> "", apiMetrics |-> <<>>]

\* Session ids the background is sent data for.
StoreIds == {1, 2}

\* A metric as the background sees it: the request id and a status that tells
\* two metrics of one id apart.
StoredMetric(requestId, status) ==
    [requestId |-> requestId, style |-> "fetch", status |-> status,
     payloadSize |-> 0, failed |-> FALSE, cached |-> FALSE]

\* Metric lists of a payload or a batch; two calls of one method and URL in
\* the same millisecond share their request id.
MetricLists ==
    {<<StoredMetric(1, 200)>>,
     <<StoredMetric(1, 200), StoredMetric(1, 404)>>,
     <<StoredMetric(1, 404), StoredMetric(2, 200)>>}

\* SESSION_COMPLETE payloads forwarded to the background.
SessionPayloads ==
    {[id |-> i, versionTag |-> v, navigationType |-> "hard", apiMetrics |-> l] :
        i \in StoreIds, v \in {"v2"}, l \in MetricLists}

\* Tags the options page sets.
TagInputs == {"v1", " v1", " "}

OpIds == 1..2

IdleOp ==
    [kind |-> "idle", pc |-> "idle", id |-> 0,
     session |-> [id |-> 0, versionTag |-> "", navigationType |-> "", apiMetrics |-> <<>>],
     apiMetrics |-> <<>>, activeTag |-> "", existing |-> NoRecord]

\* The response every call of a burst gets.
BurstResponse ==
    [status |-> 200, type |-> "basic", contentLength |-> "5", xCache |-> "", bodySize |-> 5]

CallIds == 1..MaxCalls
SessionIds == 1..(MaxInject + MaxSpaNav + 1)

-----------------------------------------------------------------------------
(* The script's functions, as operators on the page state *)

\* The session part of a message that carries none (an API batch).
NoSession ==
    [id |-> 0, navigationType |-> "", versionTag |-> "", loadMetrics |-> "",
     webVitals |-> [fcp |-> 0, lcp |-> 0, cls |-> 0, tbt |-> 0],
     memoryMetrics |-> "", resourceMetrics |-> "", apiMetricsAtFinalize |-> <<>>]

\* crypto.randomUUID(): a value no earlier call returned.
randomUUID(s) == s.nextUuid

\* clearTimeout(handle): a timer that is still outstanding is cancelled; a
\* handle whose timer has fired cancels nothing.
clearTimeoutOfBatch(s) ==
    IF s.apiBatchTimerId = "pending" THEN [s EXCEPT !.apiBatchTimers = @ - 1] ELSE s

\* Mutation: the batch timer is left alone.
clearTimersKeepBatch(s) ==
    [s EXCEPT !.tbtStopTimeoutId = "null",
              !.lcpFallbackTimeoutId = "null"]

clearTimers(s) ==
    LET s1 == IF s.apiBatchTimerId # "null" THEN clearTimeoutOfBatch(s) ELSE s
    IN  [s1 EXCEPT !.tbtStopTimeoutId = "null",
                   !.lcpFallbackTimeoutId = "null",
                   !.apiBatchTimerId = "null"]

disconnectAll(s) ==
    [s EXCEPT !.paintObserver = FALSE, !.lcpObserver = FALSE,
              !.clsObserver = FALSE, !.longTaskObserver = FALSE]

resetSessionState(s, nextNavigationType) ==
    disconnectAll(clearTimers(
        [s EXCEPT !.finalized = FALSE,
                  !.sessionId = randomUUID(s),
                  !.nextUuid = @ + 1,
                  !.navigationType = nextNavigationType,
                  !.sampledIn = FALSE,
                  !.fcpValue = 0, !.lcpValue = 0, !.clsValue = 0, !.tbtValue = 0,
                  !.fcpTimestamp = 0,
                  !.lcpFinalized = FALSE,
                  !.resourceMetrics = "empty",
                  !.loadMetrics = "zero",
                  !.memoryMetrics = "null",
                  !.apiQueue = <<>>,
                  !.resets = @ + 1]))

\* Mutation: the observer stays connected.
finalizeLcpKeepObserver(s) ==
    IF s.lcpFinalized THEN s
    ELSE [s EXCEPT !.lcpFinalized = TRUE]

finalizeLcp(s) ==
    IF s.lcpFinalized THEN s
    ELSE [s EXCEPT !.lcpFinalized = TRUE, !.lcpObserver = FALSE]

\* The three global listeners are added once per page (window guard).
ensureGlobalLcpFinalizeListeners(s) ==
    IF s.lcpFinalizeGuard THEN s
    ELSE [s EXCEPT !.lcpFinalizeGuard = TRUE, !.lcpListeners = @ + 1,
                   !.lcpLoadListener = TRUE]

\* Mutation: the API tracking flag of the configuration is not consulted.
shouldTrackApiAnyFlag(s) ==
    IF s.config.isNull THEN FALSE ELSE s.sampledIn

shouldTrackApi(s) ==
    IF s.config.isNull THEN FALSE
    ELSE IF ~s.config.apiTrackingEnabled THEN FALSE
    ELSE s.sampledIn

clearApiBatchTimer(s) ==
    IF s.apiBatchTimerId = "null" THEN s
    ELSE [clearTimeoutOfBatch(s) EXCEPT !.apiBatchTimerId = "null"]

\* Mutation: when the emission throws, the batch is kept for a retry.
flushApiQueueKeepOnError(s) ==
    IF Len(s.apiQueue) = 0 THEN clearApiBatchTimer(s)
    ELSE IF s.postMessageThrows
    THEN [s EXCEPT !.flushFailures = @ + 1]
    ELSE clearApiBatchTimer(
        [s EXCEPT !.posted = Append(@, [type |-> "PERF_MONITOR_API_BATCH",
                                         sessionId |-> s.sessionId,
                                         apiMetrics |-> s.apiQueue,
                                         session |-> NoSession]),
                  !.apiQueue = <<>>])

\* window.postMessage either posts the batch or throws; the catch branch
\* empties the queue and clears the timer all the same.
flushApiQueue(s) ==
    IF Len(s.apiQueue) = 0 THEN clearApiBatchTimer(s)
    ELSE IF s.postMessageThrows
    THEN clearApiBatchTimer([s EXCEPT !.apiQueue = <<>>, !.flushFailures = @ + 1])
    ELSE clearApiBatchTimer(
        [s EXCEPT !.posted = Append(@, [type |-> "PERF_MONITOR_API_BATCH",
                                         sessionId |-> s.sessionId,
                                         apiMetrics |-> s.apiQueue,
                                         session |-> NoSession]),
                  !.apiQueue = <<>>])

\* Mutation: the flush waits for one item more than the maximum.
queueApiMetricLateFlush(s, metric) ==
    LET s1 == [s EXCEPT !.apiMetrics[s.sessionId] = Append(@, metric),
                        !.apiQueue = Append(@, metric)]
    IN  IF Len(s1.apiQueue) > apiBatchMaxSize THEN flushApiQueue(s1)
        ELSE IF s1.apiBatchTimerId = "null"
             THEN [s1 EXCEPT !.apiBatchTimerId = "pending", !.apiBatchTimers = @ + 1,
                             !.batchTimersArmed = @ + 1]
             ELSE s1

\* Mutation: every queued item arms a timer, whether or not one is pending.
queueApiMetricRearm(s, metric) ==
    LET s1 == [s EXCEPT !.apiMetrics[s.sessionId] = Append(@, metric),
                        !.apiQueue = Append(@, metric)]
    IN  IF Len(s1.apiQueue) >= apiBatchMaxSize THEN flushApiQueue(s1)
        ELSE [s1 EXCEPT !.apiBatchTimerId = "pending", !.apiBatchTimers = @ + 1,
                        !.batchTimersArmed = @ + 1]

\* apiMetrics is one array per session (a reset makes a new one); the push
\* goes to the array the variable refers to now.
queueApiMetric(s, metric) ==
    LET s1 == [s EXCEPT !.apiMetrics[s.sessionId] = Append(@, metric),
                        !.apiQueue = Append(@, metric)]
    IN  IF Len(s1.apiQueue) >= apiBatchMaxSize THEN flushApiQueue(s1)
        ELSE IF s1.apiBatchTimerId = "null"
             THEN [s1 EXCEPT !.apiBatchTimerId = "pending", !.apiBatchTimers = @ + 1,
                             !.batchTimersArmed = @ + 1]
             ELSE s1

\* The window guard: absent, or an object {spa, api}.
readPatchState(s) ==
    IF ~s.patchGuard.set THEN [spa |-> FALSE, api |-> FALSE]
    ELSE [spa |-> s.patchGuard.spa, api |-> s.patchGuard.api]

\* Mutation: the wrappers are installed without consulting the window guard.
ensureApiInterceptorsPatchedUnguarded(s) ==
    [s EXCEPT !.patchGuard = [set |-> TRUE, spa |-> readPatchState(s).spa, api |-> TRUE],
              !.fetchWrappers = @ + 1,
              !.xhrWrappers = @ + 1]

ensureApiInterceptorsPatched(s) ==
    LET patchState == readPatchState(s)
    IN  IF patchState.api THEN s
        ELSE [s EXCEPT !.patchGuard = [set |-> TRUE, spa |-> patchState.spa, api |-> TRUE],
                       !.fetchWrappers = @ + 1,
                       !.xhrWrappers = @ + 1]

patchSpaNavigationDispatch(s) ==
    LET patchState == readPatchState(s)
    IN  IF patchState.spa THEN s
        ELSE [s EXCEPT !.patchGuard = [set |-> TRUE, spa |-> TRUE, api |-> patchState.api],
                       !.historyHooks = @ + 1]

readNavigationTiming(s) == [s EXCEPT !.loadMetrics = "navigation"]

readMemoryMetrics(s) == [s EXCEPT !.memoryMetrics = "memory"]

takeResourceSnapshotAfterLoad(s) ==
    IF s.readyState = "complete"
    THEN [s EXCEPT !.snapshotTimers = @ + 1]
    ELSE [s EXCEPT !.snapshotLoadListeners = @ + 1]

\* Mutation: the message is posted in the call itself.
schedulePostMessageNow(s, payload) ==
    [s EXCEPT !.posted = Append(@, [type |-> "PERF_MONITOR_SESSION_COMPLETE",
                                    sessionId |-> payload.id,
                                    apiMetrics |-> s.apiMetrics[payload.id],
                                    session |-> payload])]

\* The send is deferred (requestIdleCallback, else setTimeout 0).
schedulePostMessage(s, payload) ==
    [s EXCEPT !.idleQueue = Append(@, payload)]

\* finalizeSession after its guard: teardown, final reads, final flush, the
\* snapshot, and the scheduling of the emission.  The payload's apiMetrics is
\* the session's array itself (see send); apiMetricsAtFinalize records what the
\* array held when the payload was built.
finalizeSessionBody(s) ==
    LET s1 == disconnectAll(clearTimers([s EXCEPT !.finalized = TRUE]))
        s2 == readMemoryMetrics(readNavigationTiming(s1))
        s3 == flushApiQueue(s2)
        payload == [id |-> s3.sessionId,
                    navigationType |-> s3.navigationType,
                    versionTag |-> IF s3.config.isNull THEN "" ELSE s3.config.versionTag,
                    loadMetrics |-> s3.loadMetrics,
                    webVitals |-> [fcp |-> s3.fcpValue, lcp |-> s3.lcpValue,
                                   cls |-> s3.clsValue, tbt |-> s3.tbtValue],
                    memoryMetrics |-> s3.memoryMetrics,
                    resourceMetrics |-> s3.resourceMetrics,
                    apiMetricsAtFinalize |-> s3.apiMetrics[s3.sessionId]]
    IN  schedulePostMessage(
            [s3 EXCEPT !.finalizeRuns[s3.sessionId] = @ + 1], payload)

\* Mutation: the finalized flag is not consulted.
finalizeSessionUnguarded(s) == finalizeSessionBody(s)

finalizeSession(s) ==
    IF s.finalized THEN s ELSE finalizeSessionBody(s)

\* observe() of an entry type the browser does not support throws, and the
\* catch leaves that observer null.
setupObservers(s) ==
    [s EXCEPT !.paintObserver = TRUE, !.lcpObserver = TRUE,
              !.clsObserver = TRUE, !.longTaskObserver = s.longTaskSupported,
              \* observe({ buffered: true }): the entries in the timeline's
              \* buffers are queued for the new observers
              !.replay = s.timeline,
              !.observersCreated = @ + 1]

startCapture(s, random) ==
    IF s.config.isNull THEN s
    ELSE IF random > s.config.samplingRate THEN [s EXCEPT !.sampledIn = FALSE]
    ELSE
      LET s1 == takeResourceSnapshotAfterLoad(readNavigationTiming(
                    [s EXCEPT !.sampledIn = TRUE]))
          s2 == ensureApiInterceptorsPatched(setupObservers(s1))
          s3 == [s2 EXCEPT !.spaListenerRegistered = TRUE,
                           !.spaListeners = IF s2.spaListenerRegistered THEN @ ELSE @ + 1,
                           !.beforeunloadListeners = @ + 1,
                           !.loadListeners = @ + 1,
                           !.captures = @ + 1]
      IN  IF s3.readyState = "complete"
          THEN [s3 EXCEPT !.settleTimers = @ + 1,
                          !.settleArmedIn = Append(@, s3.sessionId)]
          ELSE s3

\* The handler of 'perf-spa-navigation'.
onSpaNavigation(s, random) ==
    startCapture(resetSessionState(finalizeSession(s), "spa"), random)

\* Number.isFinite(rate) ? Math.min(1, Math.max(0, rate)) : 1
normalizeSampling(rate) ==
    IF rate.finite
    THEN (IF rate.v < 0 THEN 0 ELSE IF rate.v > 100 THEN 100 ELSE rate.v)
    ELSE 100

normalizeConfig(payload) ==
    [isNull |-> FALSE,
     samplingRate |-> normalizeSampling(payload.samplingRate),
     extensionMode |-> IF payload.extensionMode = "dev" THEN "dev" ELSE "silent",
     versionTag |-> IF payload.versionTag.isString THEN payload.versionTag.v ELSE "",
     apiTrackingEnabled |-> payload.apiTrackingEnabled = "true",
     redactQueryParams |-> payload.redactQueryParams = "true",
     privacyMode |-> payload.privacyMode = "true"]

\* Mutation: the one-time setup runs on every configuration.
acceptConfigAlwaysSetup(s, payload, random) ==
    startCapture(
        patchSpaNavigationDispatch(
            ensureGlobalLcpFinalizeListeners(
                [s EXCEPT !.config = normalizeConfig(payload),
                          !.ackCount = @ + 1,
                          !.configReceived = TRUE, !.setups = @ + 1])),
        random)

\* The listener once the message is known to be a CONFIG: store the
\* configuration, acknowledge, and on the first one set up and start.  When
\* posting the acknowledgement throws, the listener ends there.
acceptConfig(s, payload, random) ==
    LET s1 == [s EXCEPT !.config = normalizeConfig(payload),
                        !.ackCount = @ + 1]
    IN  IF s.postMessageThrows THEN [s EXCEPT !.config = normalizeConfig(payload)]
        ELSE IF ~s1.configReceived
        THEN startCapture(
                 patchSpaNavigationDispatch(
                     ensureGlobalLcpFinalizeListeners(
                         [s1 EXCEPT !.configReceived = TRUE, !.setups = @ + 1])),
                 random)
        ELSE s1

\* Mutation: the type of the message is not checked.
onMessageAnyType(s, msg, random) ==
    IF msg.source # "window" THEN s
    ELSE IF ~msg.isObject THEN s
    ELSE IF ~msg.hasPayload THEN s
    ELSE acceptConfig(s, msg.payload, random)

\* The message listener.  Reading a field of an absent payload throws before
\* anything is stored or posted.
onMessage(s, msg, random) ==
    IF msg.source # "window" THEN s
    ELSE IF ~msg.isObject THEN s
    ELSE IF msg.type # "PERF_MONITOR_CONFIG" THEN s
    ELSE IF ~msg.hasPayload THEN s
    ELSE acceptConfig(s, msg.payload, random)

\* The script body: returns at once when the window guard is set.
runInjectedScript(s) ==
    IF s.injectedGuard THEN s
    ELSE [s EXCEPT !.injectedGuard = TRUE,
                   !.readyCount = IF s.postMessageThrows THEN @ ELSE @ + 1,
                   !.sessionId = randomUUID(s),
                   !.nextUuid = @ + 1,
                   !.messageListeners = @ + 1,
                   !.configTimeoutTimer = "pending"]

-----------------------------------------------------------------------------
(* The content-script bridge (src/src/content/index.ts) *)

\* window.postMessage queues a message event for the window's listeners.
postConfigToInjected(s) ==
    [s EXCEPT !.windowQueue = Append(@, "PERF_MONITOR_CONFIG")]

\* Mutation: the handle is forgotten but the timer is not cleared.
stopConfigRetriesKeepTimer(s) ==
    IF s.configRetryTimeoutId # "null"
    THEN [s EXCEPT !.configRetryTimeoutId = "null"]
    ELSE s

stopConfigRetries(s) ==
    IF s.configRetryTimeoutId # "null"
    THEN [s EXCEPT !.configRetryTimers = IF s.configRetryTimeoutId = "pending"
                                         THEN @ - 1 ELSE @,
                   !.configRetryTimeoutId = "null"]
    ELSE s

retry(s) ==
    IF s.configAcked THEN stopConfigRetries(s)
    ELSE [postConfigToInjected(s) EXCEPT !.configRetryTimeoutId = "pending",
                                         !.configRetryTimers = @ + 1]

startConfigRetries(s) == retry(s)

\* The bridge's message listener for the message types of the handshake;
\* a CONFIG, its own included, matches no branch.
onBridgeMessage(s, type) ==
    IF type = "PERF_MONITOR_CONFIG_ACK"
    THEN stopConfigRetries([s EXCEPT !.configAcked = TRUE])
    ELSE s

-----------------------------------------------------------------------------
(* The URL privacy pipeline *)

supportsCryptoDigest(s) == s.digestAvailable

\* String.prototype.indexOf: the 0-based position of the first occurrence, or -1.
indexOf(text, ch) ==
    IF \E k \in DOMAIN text : text[k] = ch
    THEN (CHOOSE k \in DOMAIN text :
             text[k] = ch /\ \A j \in 1..(k - 1) : text[j] # ch) - 1
    ELSE -1

\* String.prototype.slice(0, end)
sliceFromStart(text, end) == SubSeq(text, 1, end)

\* The UTF-8 code of a character of the model.
charCode(ch) == IF ch = "?" THEN 63 ELSE 97

RECURSIVE digestByte(_)
\* The digest primitive is the browser's.  A one-byte checksum over the
\* encoded characters stands for it: a function of the text, in 0..255.
digestByte(text) ==
    IF Len(text) = 0 THEN 7
    ELSE (31 * digestByte(SubSeq(text, 1, Len(text) - 1)) + charCode(text[Len(text)])) % 256

HexDigits == <<"0", "1", "2", "3", "4", "5", "6", "7", "8", "9", "a", "b", "c", "d", "e", "f">>

\* b.toString(16).padStart(2, '0')
toHexPair(b) == <<HexDigits[(b \div 16) + 1], HexDigits[(b % 16) + 1]>>

sha256Hex(value) == toHexPair(digestByte(value))

\* Mutation: the URL is cut at its last '?'.
stripQueryParamsAtLast(rawUrl) ==
    IF \E k \in DOMAIN rawUrl : rawUrl[k] = "?"
    THEN sliceFromStart(rawUrl,
             (CHOOSE k \in DOMAIN rawUrl :
                 rawUrl[k] = "?" /\ \A j \in (k + 1)..Len(rawUrl) : rawUrl[j] # "?") - 1)
    ELSE rawUrl

stripQueryParams(rawUrl) ==
    LET queryIndex == indexOf(rawUrl, "?")
    IN  IF queryIndex < 0 THEN rawUrl ELSE sliceFromStart(rawUrl, queryIndex)

\* The result is a string: a URL's characters, or 'sha256:' and what follows.
buildApiUrl(s, rawUrl, digestOutcome) ==
    LET redactQueryParams == IF s.config.isNull THEN FALSE ELSE s.config.redactQueryParams
        privacyMode == IF s.config.isNull THEN FALSE ELSE s.config.privacyMode
        normalizedUrl == IF redactQueryParams THEN stripQueryParams(rawUrl) ELSE rawUrl
    IN  IF ~privacyMode THEN normalizedUrl
        ELSE IF ~supportsCryptoDigest(s) THEN <<"sha256:unsupported">>
        ELSE IF digestOutcome = "throws" THEN <<"sha256:error">>
        ELSE <<"sha256:">> \o sha256Hex(normalizedUrl)

-----------------------------------------------------------------------------
(* The background's session store (src/src/options/options.ts) *)

baselineTag == "baseline"

\* String.prototype.trim for the tag texts of the model.
trim(text) ==
    CASE text = " v1" -> "v1"
      [] text = " " -> ""
      [] OTHER -> text

normalizeTag(tag) ==
    LET trimmed == trim(tag)
    IN  IF trimmed # "" THEN trimmed ELSE baselineTag

\* The active tag of the page's origin; "" while the map has no entry.
getActiveTag(s) ==
    IF s.activeTag # "" THEN normalizeTag(s.activeTag) ELSE baselineTag

\* Mutation: the record keeps the version tag of the captured payload.
savedRecordCapturedTag(session, activeTag) ==
    [present |-> TRUE, versionTag |-> session.versionTag,
     navigationType |-> session.navigationType, apiMetrics |-> session.apiMetrics]

\* The record saveSession puts: { ...session, origin, versionTag: activeTag, apiMetrics }
savedRecord(session, activeTag) ==
    [present |-> TRUE, versionTag |-> activeTag,
     navigationType |-> session.navigationType, apiMetrics |-> session.apiMetrics]

RECURSIVE dedupeFrom(_, _)
\* dedupeApiMetrics after the metrics in kept: the first metric of each
\* request id stays, in order.
dedupeFrom(kept, metrics) ==
    IF Len(metrics) = 0 THEN kept
    ELSE IF \E k \in DOMAIN kept : kept[k].requestId = Head(metrics).requestId
         THEN dedupeFrom(kept, Tail(metrics))
         ELSE dedupeFrom(Append(kept, Head(metrics)), Tail(metrics))

dedupeApiMetrics(metrics) == dedupeFrom(<<>>, metrics)

\* Mutation: the batch is concatenated without dedupeApiMetrics.
appendedRecordNoDedupe(existing, apiMetrics) ==
    [existing EXCEPT !.apiMetrics = existing.apiMetrics \o apiMetrics]

\* The record appendApiBatch puts: { ...existing, apiMetrics: merged }
appendedRecord(existing, apiMetrics) ==
    [existing EXCEPT !.apiMetrics = dedupeApiMetrics(existing.apiMetrics \o apiMetrics)]

-----------------------------------------------------------------------------
(* The network wrappers' helpers *)

\* Number(text) for the header texts of the model: [finite, v].
NumberOf(text) ==
    CASE text = "5" -> [finite |-> TRUE, v |-> 5]
      [] text = "0" -> [finite |-> TRUE, v |-> 0]
      [] text = "-1" -> [finite |-> TRUE, v |-> -1]
      [] OTHER -> [finite |-> FALSE, v |-> 0]

toUpperCase(text) ==
    CASE text = "hit" -> "HIT"
      [] text = "miss" -> "MISS"
      [] OTHER -> text

shouldSkipSizeCalculation(response) ==
    IF response.type = "opaque" THEN TRUE
    ELSE IF response.contentLength # "" /\ NumberOf(response.contentLength).finite
            /\ NumberOf(response.contentLength).v > 0 THEN TRUE
    ELSE FALSE

estimateFetchPayloadSize(response) ==
    LET parsed == NumberOf(response.contentLength)
    IN  IF response.contentLength # "" /\ parsed.finite /\ parsed.v >= 0 THEN parsed.v
        ELSE IF shouldSkipSizeCalculation(response) THEN 0
        ELSE response.bodySize

isResponseCached(response, payloadSize) ==
    IF response.xCache # "" /\ toUpperCase(response.xCache) = "HIT" THEN TRUE
    ELSE IF response.type = "opaque" THEN TRUE
    ELSE payloadSize = 0

\* Mutation: an error status is recorded as a failure.
fetchResolvedMetricNotOk(c, response) ==
    LET payloadSize == estimateFetchPayloadSize(response)
    IN  [requestId |-> c, style |-> "fetch", status |-> response.status,
         payloadSize |-> payloadSize, failed |-> (response.status >= 400),
         cached |-> isResponseCached(response, payloadSize)]

\* The metric of a fetch that resolved (the try branch of the wrapper).
fetchResolvedMetric(c, response) ==
    LET payloadSize == estimateFetchPayloadSize(response)
    IN  [requestId |-> c, style |-> "fetch", status |-> response.status,
         payloadSize |-> payloadSize, failed |-> FALSE,
         cached |-> isResponseCached(response, payloadSize)]

\* The metric of a fetch that rejected (the catch branch of the wrapper).
fetchRejectedMetric(c) ==
    [requestId |-> c, style |-> "fetch", status |-> 0,
     payloadSize |-> 0, failed |-> TRUE, cached |-> FALSE]

\* Mutation: the catch branch wraps the error in a new one.
fetchRethrowWrapped(error) ==
    [kind |-> "error", response |-> NoResponse, error |-> "Error: request failed"]

\* What the wrapper's catch branch hands to the call site: it rethrows.
fetchRethrow(error) == [kind |-> "error", response |-> NoResponse, error |-> error]

\* The metric of an XMLHttpRequest at loadend.
xhrMetric(c, result) ==
    LET parsed == NumberOf(result.contentLength)
        payloadSize == IF result.contentLength # "" /\ parsed.finite /\ parsed.v >= 0
                       THEN parsed.v ELSE result.bodySize
    IN  [requestId |-> c, style |-> "xhr", status |-> result.status,
         payloadSize |-> payloadSize, failed |-> (result.status = 0),
         cached |-> (payloadSize = 0)]

-----------------------------------------------------------------------------
(* Initial state: the page context before the script is injected *)

InitPage(readyState) ==
    [\* window guards
     injectedGuard |-> FALSE,
     patchGuard |-> [set |-> FALSE, spa |-> FALSE, api |-> FALSE],
     lcpFinalizeGuard |-> FALSE,
     \* script variables
     config |-> NullConfig, configReceived |-> FALSE, sampledIn |-> FALSE,
     sessionId |-> 0, navigationType |-> "hard",
     fcpValue |-> 0, lcpValue |-> 0, clsValue |-> 0, tbtValue |-> 0,
     lcpFinalized |-> FALSE,
     resourceMetrics |-> "empty", loadMetrics |-> "zero", memoryMetrics |-> "null",
     apiMetrics |-> [i \in SessionIds |-> <<>>], apiQueue |-> <<>>,
     apiBatchTimerId |-> "null",
     fcpTimestamp |-> 0, tbtStopTimeoutId |-> "null", lcpFallbackTimeoutId |-> "null",
     finalized |-> FALSE,
     paintObserver |-> FALSE, lcpObserver |-> FALSE,
     clsObserver |-> FALSE, longTaskObserver |-> FALSE,
     spaListenerRegistered |-> FALSE,
     \* the browser: document state, installed wrappers, listeners, timers
     readyState |-> readyState,
     nextUuid |-> 1,
     fetchWrappers |-> 0, xhrWrappers |-> 0, historyHooks |-> 0,
     messageListeners |-> 0, lcpListeners |-> 0, spaListeners |-> 0,
     beforeunloadListeners |-> 0, loadListeners |-> 0, snapshotLoadListeners |-> 0,
     lcpLoadListener |-> FALSE,
     settleTimers |-> 0, snapshotTimers |-> 0, configTimeoutTimer |-> "null",
     \* the pending settle timers, oldest first: the session each was armed in
     settleArmedIn |-> <<>>,
     apiBatchTimers |-> 0,
     idleQueue |-> <<>>,
     postMessageThrows |-> FALSE,
     digestAvailable |-> TRUE,
     longTaskSupported |-> TRUE,
     \* the performance timeline's buffers, each entry with the session in
     \* which it occurred, and the buffered entries still to be replayed
     timeline |-> [paint |-> <<>>, lcp |-> <<>>, shift |-> <<>>, longtask |-> <<>>],
     replay |-> [paint |-> <<>>, lcp |-> <<>>, shift |-> <<>>, longtask |-> <<>>],
     \* the background: the sessions store, the origin's active tag, and the
     \* persistence operations in progress
     store |-> [i \in StoreIds |-> NoRecord],
     activeTag |-> "",
     ops |-> [o \in OpIds |-> IdleOp],
     \* the content-script bridge and the window's queue of message events
     bridgeStarted |-> FALSE, configAcked |-> FALSE,
     configRetryTimeoutId |-> "null", configRetryTimers |-> 0,
     windowQueue |-> <<>>,
     \* what the script has posted
     posted |-> <<>>, readyCount |-> 0, ackCount |-> 0,
     \* bookkeeping of what the script has done
     setups |-> 0, captures |-> 0, observersCreated |-> 0, resets |-> 0,
     finalizeRuns |-> [i \in SessionIds |-> 0],
     flushFailures |-> 0, batchTimersArmed |-> 0,
     warned |-> FALSE]

NoOutcome == [kind |-> "none", response |-> NoResponse, error |-> ""]

\* A call: where its wrapper stands, what the underlying primitive produced
\* (outcome) and what the call site has been handed (received).
NewCall ==
    [pc |-> "new", style |-> "fetch", tracked |-> FALSE, session |-> 0,
     outcome |-> NoOutcome, received |-> NoOutcome,
     rawUrl |-> <<>>, digestOutcome |-> "none", url |-> <<>>]

InitHist ==
    [injections |-> 0, configMsgs |-> 0, spaNavs |-> 0, unloads |-> 0,
     entries |-> 0, unloadsAfterConfig |-> 0,
     queued |-> 0, expiries |-> 0,
     lastPayload |-> PayloadDefault,
     storeOps |-> 0,
     configMissed |-> FALSE,
     cancelled |-> 0,
     lcpDelivered |-> <<>>,
     paintDelivered |-> <<>>,
     layoutShifts |-> [i \in SessionIds |-> <<>>],
     longTasks |-> [i \in SessionIds |-> <<>>]]

Init ==
    /\ \E readyState \in {"loading", "complete"} : st = InitPage(readyState)
    /\ calls = [c \in CallIds |-> NewCall]
    /\ hist = InitHist

-----------------------------------------------------------------------------
(* Handlers run by browser events *)

\* The extension injects the script into the page (possibly again).
Inject ==
    /\ hist.injections < MaxInject
    /\ st' = runInjectedScript(st)
    /\ hist' = [hist EXCEPT !.injections = @ + 1]
    /\ UNCHANGED calls

IsConfigFromWindow(msg) ==
    msg.source = "window" /\ msg.isObject /\ msg.type = "PERF_MONITOR_CONFIG"

\* The draws of Math.random() a handler can make: startCapture draws one,
\* a handler that does not reach startCapture draws none.
Draws(reachesStartCapture) == IF reachesStartCapture THEN RandomValues ELSE {0}

\* A message event reaches the script's listener.
Message ==
    /\ st.messageListeners > 0
    /\ \E msg \in Messages :
       \E random \in Draws(IsConfigFromWindow(msg) /\ msg.hasPayload /\ ~st.configReceived) :
          /\ IsConfigFromWindow(msg) => hist.configMsgs < MaxMsgs
          /\ st' = onMessage(st, msg, random)
          /\ hist' = [hist EXCEPT !.configMsgs = IF IsConfigFromWindow(msg) THEN @ + 1 ELSE @]
    /\ UNCHANGED calls

\* The 3 s timer set at script load.
ConfigTimeout ==
    /\ st.configTimeoutTimer = "pending"
    /\ st' = [st EXCEPT !.configTimeoutTimer = "fired",
                        !.warned = ~st.configReceived]
    /\ UNCHANGED <<calls, hist>>

\* The document finishes loading: every 'load' listener runs, once.
onLoad(s) ==
    [s EXCEPT !.readyState = "complete",
              !.lcpFallbackTimeoutId = IF s.lcpLoadListener THEN "pending" ELSE @,
              !.lcpLoadListener = FALSE,
              !.settleTimers = @ + s.loadListeners,
              !.settleArmedIn = @ \o [k \in 1..s.loadListeners |-> s.sessionId],
              !.loadListeners = 0,
              !.snapshotTimers = @ + s.snapshotLoadListeners,
              !.snapshotLoadListeners = 0]

PageLoad ==
    /\ st.readyState = "loading"
    /\ st' = onLoad(st)
    /\ UNCHANGED <<calls, hist>>

\* One 'beforeunload' listener of startCapture.
onBeforeUnload(s) == finalizeSession(flushApiQueue(s))

RECURSIVE runBeforeUnloadListeners(_, _)
runBeforeUnloadListeners(s, n) ==
    IF n = 0 THEN s ELSE runBeforeUnloadListeners(onBeforeUnload(s), n - 1)

\* 'beforeunload': the global LCP listener, then startCapture's listeners
\* (each registered with once: true).
dispatchBeforeUnload(s) ==
    LET s1 == IF s.lcpListeners > 0 THEN finalizeLcp(s) ELSE s
        s2 == runBeforeUnloadListeners(s1, s1.beforeunloadListeners)
    IN  [s2 EXCEPT !.beforeunloadListeners = 0]

BeforeUnload ==
    /\ hist.unloads < MaxUnload
    /\ st' = dispatchBeforeUnload(st)
    /\ hist' = [hist EXCEPT !.unloads = @ + 1,
                            !.unloadsAfterConfig = IF st.configReceived THEN @ + 1 ELSE @]
    /\ UNCHANGED calls

\* 'visibilitychange' to hidden.
VisibilityHidden ==
    /\ st.lcpListeners > 0
    /\ ~st.lcpFinalized
    /\ st' = finalizeLcp(st)
    /\ UNCHANGED <<calls, hist>>

\* The page calls pushState / replaceState, or the user goes back: the
\* history hook, when installed, dispatches 'perf-spa-navigation'.
SpaNavigation ==
    /\ hist.spaNavs < MaxSpaNav
    /\ \E random \in Draws(st.historyHooks > 0 /\ st.spaListeners > 0) :
          st' = IF st.historyHooks > 0 /\ st.spaListeners > 0
                THEN onSpaNavigation(st, random)
                ELSE st
    /\ hist' = [hist EXCEPT !.spaNavs = @ + 1]
    /\ UNCHANGED calls

-----------------------------------------------------------------------------
(* Timers and deferred callbacks *)

\* A 3 s settle timer (load + 3 s, or injected-after-load + 3 s).
SettleTimer ==
    /\ st.settleTimers > 0
    /\ st' = finalizeSession([st EXCEPT !.settleTimers = @ - 1,
                                       !.settleArmedIn = Tail(@)])
    /\ UNCHANGED <<calls, hist>>

\* The 2 s resource snapshot timer.
SnapshotTimer ==
    /\ st.snapshotTimers > 0
    /\ st' = [st EXCEPT !.snapshotTimers = @ - 1, !.resourceMetrics = "snapshot"]
    /\ UNCHANGED <<calls, hist>>

\* The 5 s window after FCP ends.
TbtStopTimer ==
    /\ st.tbtStopTimeoutId = "pending"
    /\ st' = [st EXCEPT !.tbtStopTimeoutId = "fired", !.longTaskObserver = FALSE]
    /\ UNCHANGED <<calls, hist>>

\* load + 3 s: the LCP fallback.
LcpFallbackTimer ==
    /\ st.lcpFallbackTimeoutId = "pending"
    /\ st' = finalizeLcp([st EXCEPT !.lcpFallbackTimeoutId = "fired"])
    /\ UNCHANGED <<calls, hist>>

\* A 5 s batch timer expires: its callback flushes.
ApiBatchTimer ==
    /\ st.apiBatchTimers > 0
    /\ hist.expiries < MaxExpiries
    /\ st' = flushApiQueue([st EXCEPT !.apiBatchTimers = @ - 1,
                                      !.apiBatchTimerId = "fired"])
    /\ hist' = [hist EXCEPT !.expiries = @ + 1]
    /\ UNCHANGED calls

\* The deferred send of schedulePostMessage: the payload's apiMetrics is the
\* array the session had, read when the message is posted.
send(s) ==
    LET payload == Head(s.idleQueue)
    IN  IF s.postMessageThrows THEN [s EXCEPT !.idleQueue = Tail(@)]
        ELSE
        [s EXCEPT !.idleQueue = Tail(@),
                  !.posted = Append(@, [type |-> "PERF_MONITOR_SESSION_COMPLETE",
                                        sessionId |-> payload.id,
                                        apiMetrics |-> s.apiMetrics[payload.id],
                                        session |-> payload])]

IdleCallback ==
    /\ Len(st.idleQueue) > 0
    /\ st' = send(st)
    /\ UNCHANGED <<calls, hist>>

-----------------------------------------------------------------------------
(* Performance observers *)

\* Mutation: the paint observer stays connected.
onPaintEntryKeepObserver(s, startTime) ==
    [s EXCEPT !.fcpValue = startTime,
              !.fcpTimestamp = startTime,
              !.tbtStopTimeoutId = IF s.longTaskObserver THEN "pending" ELSE @]

\* The paint observer's callback at a 'first-contentful-paint' entry.
onPaintEntry(s, startTime) ==
    [s EXCEPT !.fcpValue = startTime,
              !.fcpTimestamp = startTime,
              !.paintObserver = FALSE,
              !.tbtStopTimeoutId = IF s.longTaskObserver THEN "pending" ELSE @]

RECURSIVE onPaintEntries(_, _)
\* The paint observer's loop: it returns at the first FCP entry.
onPaintEntries(s, entries) ==
    IF Len(entries) = 0 THEN s
    ELSE IF Head(entries).name = "first-contentful-paint"
         THEN onPaintEntry(s, Head(entries).startTime)
         ELSE onPaintEntries(s, Tail(entries))

onLcpEntries(s, entries) ==
    IF Len(entries) = 0 THEN s
    ELSE [s EXCEPT !.lcpValue = entries[Len(entries)]]

\* Mutation: the recent-input flag is not consulted.
onLayoutShiftAnyInput(s, entry) == [s EXCEPT !.clsValue = @ + entry.value]

\* The body of the CLS observer's loop, for one entry.
onLayoutShift(s, entry) ==
    IF ~entry.hadRecentInput THEN [s EXCEPT !.clsValue = @ + entry.value] ELSE s

RECURSIVE onLayoutShiftEntries(_, _)
\* The CLS observer's callback: for (const entry of entries) ...
onLayoutShiftEntries(s, entries) ==
    IF Len(entries) = 0 THEN s
    ELSE onLayoutShiftEntries(onLayoutShift(s, Head(entries)), Tail(entries))

\* Mutation: the blocking part is the part of the task inside the window.
onLongTaskClipped(s, entry) ==
    IF s.fcpTimestamp <= 0 THEN s
    ELSE LET windowEnd == s.fcpTimestamp + 5000
             taskStart == entry.startTime
             taskEnd == taskStart + entry.duration
             from == IF taskStart < s.fcpTimestamp THEN s.fcpTimestamp ELSE taskStart
             to == IF taskEnd > windowEnd THEN windowEnd ELSE taskEnd
             blocking == (to - from) - 50
         IN  IF taskStart >= windowEnd \/ taskEnd <= s.fcpTimestamp THEN s
             ELSE IF blocking > 0 THEN [s EXCEPT !.tbtValue = @ + blocking]
             ELSE s

\* The long-task observer's callback for one entry (the FCP test is made
\* once per callback; FCP cannot change inside it).
onLongTask(s, entry) ==
    IF s.fcpTimestamp <= 0 THEN s
    ELSE LET windowEnd == s.fcpTimestamp + 5000
             taskStart == entry.startTime
             taskEnd == taskStart + entry.duration
             blocking == entry.duration - 50
         IN  IF taskStart >= windowEnd \/ taskEnd <= s.fcpTimestamp THEN s
             ELSE IF blocking > 0 THEN [s EXCEPT !.tbtValue = @ + blocking]
             ELSE s

RECURSIVE onLongTaskEntries(_, _)
onLongTaskEntries(s, entries) ==
    IF Len(entries) = 0 THEN s
    ELSE onLongTaskEntries(onLongTask(s, Head(entries)), Tail(entries))

\* Entries as the timeline buffers them.
Buffered(entries, session) ==
    [k \in DOMAIN entries |-> [entry |-> entries[k], session |-> session]]

\* The paint entries of a page: first-paint, then first-contentful-paint.
PaintLists ==
    {<<[name |-> "first-paint", startTime |-> 800]>>,
     <<[name |-> "first-paint", startTime |-> 800],
       [name |-> "first-contentful-paint", startTime |-> 1000]>>}

PaintEntry ==
    /\ st.paintObserver
    /\ hist.entries < MaxEntries
    /\ \E entries \in PaintLists :
          /\ st' = [onPaintEntries(st, entries) EXCEPT
                        !.timeline.paint = @ \o Buffered(entries, st.sessionId)]
          /\ hist' = [hist EXCEPT !.entries = @ + 1,
                                  !.paintDelivered = Append(@, entries)]
    /\ UNCHANGED calls

LcpEntries ==
    /\ st.lcpObserver
    /\ hist.entries < MaxEntries
    /\ \E entries \in {<<1200>>, <<1200, 2500>>} :
          /\ st' = [onLcpEntries(st, entries) EXCEPT
                        !.timeline.lcp = @ \o Buffered(entries, st.sessionId)]
          /\ hist' = [hist EXCEPT !.entries = @ + 1,
                                  !.lcpDelivered = Append(@, entries)]
    /\ UNCHANGED calls

\* Layout shift values are in hundredths.  hist keeps what was delivered
\* to each session's observer.
LayoutShift ==
    /\ st.clsObserver
    /\ hist.entries < MaxEntries
    /\ \E entries \in LayoutShiftLists :
          /\ st' = [onLayoutShiftEntries(st, entries) EXCEPT
                        !.timeline.shift = @ \o Buffered(entries, st.sessionId)]
          /\ hist' = [hist EXCEPT !.entries = @ + 1,
                                  !.layoutShifts[st.sessionId] = @ \o entries]
    /\ UNCHANGED calls

\* hist keeps each delivered task with the FCP time known at its delivery.
LongTask ==
    /\ st.longTaskObserver
    /\ hist.entries < MaxEntries
    /\ \E entries \in LongTaskLists :
          /\ st' = [onLongTaskEntries(st, entries) EXCEPT
                        !.timeline.longtask = @ \o Buffered(entries, st.sessionId)]
          /\ hist' = [hist EXCEPT
                         !.entries = @ + 1,
                         !.longTasks[st.sessionId] = @ \o
                             [k \in DOMAIN entries |->
                                 [startTime |-> entries[k].startTime,
                                  duration |-> entries[k].duration,
                                  fcp |-> st.fcpTimestamp]]]
    /\ UNCHANGED calls

-----------------------------------------------------------------------------
(* Network calls of the host page *)

CanStart(c) == calls[c].pc = "new" /\ (IF c = 1 THEN TRUE ELSE calls[c - 1].pc # "new")

\* The page calls fetch: the wrapper, when installed, decides whether to track.
FetchCall(c) ==
    /\ CanStart(c)
    /\ calls' = [calls EXCEPT ![c] =
                    [@ EXCEPT !.pc = "inflight", !.style = "fetch",
                              !.tracked = st.fetchWrappers > 0 /\ shouldTrackApi(st),
                              !.session = st.sessionId]]
    /\ UNCHANGED <<st, hist>>

\* The underlying fetch settles.  Untracked: the original promise is the
\* wrapper's result.  Tracked: the wrapper goes on to build the URL.
FetchSettle(c) ==
    /\ calls[c].pc = "inflight" /\ calls[c].style = "fetch"
    /\ \E outcome \in FetchOutcomes :
          calls' = [calls EXCEPT ![c] =
                      IF ~calls[c].tracked
                      THEN [@ EXCEPT !.pc = "done", !.outcome = outcome, !.received = outcome]
                      ELSE [@ EXCEPT !.pc = "buildApiUrl", !.outcome = outcome]]
    /\ UNCHANGED <<st, hist>>

\* await buildApiUrl returns.  In the catch branch the failed metric is
\* queued and the error rethrown; in the try branch the size is awaited next.
FetchUrlBuilt(c) ==
    /\ calls[c].pc = "buildApiUrl" /\ calls[c].style = "fetch"
    /\ IF calls[c].outcome.kind = "error"
       THEN /\ st' = queueApiMetric(st, fetchRejectedMetric(c))
            /\ calls' = [calls EXCEPT ![c] =
                           [@ EXCEPT !.pc = "done",
                                     !.received = fetchRethrow(calls[c].outcome.error)]]
       ELSE /\ calls' = [calls EXCEPT ![c] = [@ EXCEPT !.pc = "estimateSize"]]
            /\ st' = st
    /\ UNCHANGED hist

\* await estimateFetchPayloadSize returns: the metric is queued and the
\* response returned to the call site.
FetchSized(c) ==
    /\ calls[c].pc = "estimateSize"
    /\ st' = queueApiMetric(st, fetchResolvedMetric(c, calls[c].outcome.response))
    /\ calls' = [calls EXCEPT ![c] = [@ EXCEPT !.pc = "done", !.received = calls[c].outcome]]
    /\ UNCHANGED hist

\* The page sends an XMLHttpRequest.
XhrSend(c) ==
    /\ CanStart(c)
    /\ calls' = [calls EXCEPT ![c] =
                    [@ EXCEPT !.pc = "inflight", !.style = "xhr",
                              !.tracked = st.xhrWrappers > 0 /\ shouldTrackApi(st),
                              !.session = st.sessionId]]
    /\ UNCHANGED <<st, hist>>

\* loadend: the page has its result; a tracked request goes on to build the URL.
XhrLoadEnd(c) ==
    /\ calls[c].pc = "inflight" /\ calls[c].style = "xhr"
    /\ \E outcome \in XhrOutcomes :
          calls' = [calls EXCEPT ![c] =
                      [@ EXCEPT !.pc = IF calls[c].tracked THEN "buildApiUrl" ELSE "done",
                                !.outcome = outcome, !.received = outcome]]
    /\ UNCHANGED <<st, hist>>

XhrUrlBuilt(c) ==
    /\ calls[c].pc = "buildApiUrl" /\ calls[c].style = "xhr"
    /\ st' = queueApiMetric(st, xhrMetric(c, calls[c].outcome.response))
    /\ calls' = [calls EXCEPT ![c] = [@ EXCEPT !.pc = "done"]]
    /\ UNCHANGED hist

\* The host page replaces window.postMessage by a function that throws.
PostMessageBreaks ==
    /\ ~st.postMessageThrows
    /\ st' = [st EXCEPT !.postMessageThrows = TRUE]
    /\ UNCHANGED <<calls, hist>>

-----------------------------------------------------------------------------
(* The specification *)

Next ==
    \/ Inject
    \/ Message
    \/ ConfigTimeout
    \/ PageLoad
    \/ BeforeUnload
    \/ VisibilityHidden
    \/ SpaNavigation
    \/ SettleTimer
    \/ SnapshotTimer
    \/ TbtStopTimer
    \/ LcpFallbackTimer
    \/ ApiBatchTimer
    \/ IdleCallback
    \/ PaintEntry
    \/ LcpEntries
    \/ LayoutShift
    \/ LongTask
    \/ PostMessageBreaks
    \/ \E c \in CallIds : FetchCall(c)
    \/ \E c \in CallIds : FetchSettle(c)
    \/ \E c \in CallIds : FetchUrlBuilt(c)
    \/ \E c \in CallIds : FetchSized(c)
    \/ \E c \in CallIds : XhrSend(c)
    \/ \E c \in CallIds : XhrLoadEnd(c)
    \/ \E c \in CallIds : XhrUrlBuilt(c)

Spec == Init /\ [][Next]_vars

\* The session life cycle alone: injection, the config handshake, the finalize
\* triggers, SPA navigation and the deferred send.
NextLifecycle ==
    \/ Inject
    \/ Message
    \/ PageLoad
    \/ BeforeUnload
    \/ SpaNavigation
    \/ SettleTimer
    \/ IdleCallback

SpecLifecycle == Init /\ [][NextLifecycle]_vars

\* The network wrappers: injection, the config handshake, and the calls of
\* the host page with the batch timer.
NextNet ==
    \/ Inject
    \/ Message
    \/ ApiBatchTimer
    \/ \E c \in CallIds : FetchCall(c)
    \/ \E c \in CallIds : FetchSettle(c)
    \/ \E c \in CallIds : FetchUrlBuilt(c)
    \/ \E c \in CallIds : FetchSized(c)
    \/ \E c \in CallIds : XhrSend(c)
    \/ \E c \in CallIds : XhrLoadEnd(c)
    \/ \E c \in CallIds : XhrUrlBuilt(c)

SpecNet == Init /\ [][NextNet]_vars

\* Tracked calls whose request has ended and whose wrapper is about to
\* build the metric's URL, on a configured page with or without a digest
\* primitive.
InitUrl ==
    /\ \E payload \in UrlPayloads, digestAvailable \in BOOLEAN :
          st = [acceptConfig(runInjectedScript(InitPage("complete")), payload, 0)
                   EXCEPT !.digestAvailable = digestAvailable]
    /\ \E rawUrls \in [CallIds -> Urls] :
          calls = [c \in CallIds |->
                      [NewCall EXCEPT !.pc = "buildApiUrl", !.tracked = TRUE,
                                      !.session = 1, !.rawUrl = rawUrls[c]]]
    /\ hist = [InitHist EXCEPT !.injections = 1, !.configMsgs = 1]

\* await buildApiUrl(rawUrl) returns the metric's URL.
UrlBuilt(c) ==
    /\ calls[c].pc = "buildApiUrl"
    /\ \E digestOutcome \in DigestOutcomes :
          calls' = [calls EXCEPT ![c] =
                      [@ EXCEPT !.pc = "urlBuilt",
                                !.digestOutcome = digestOutcome,
                                !.url = buildApiUrl(st, calls[c].rawUrl, digestOutcome)]]
    /\ UNCHANGED <<st, hist>>

NextUrl == \E c \in CallIds : UrlBuilt(c)

SpecUrl == InitUrl /\ [][NextUrl]_vars

\* A page whose script has been injected and configured by the content
\* script's CONFIG message, sampled in: where a burst of tracked calls starts.
InitConfigured ==
    /\ \E readyState \in {"loading", "complete"} :
          st = acceptConfig(runInjectedScript(InitPage(readyState)), PayloadDefault, 0)
    /\ calls = [c \in CallIds |-> NewCall]
    /\ hist = [InitHist EXCEPT !.injections = 1, !.configMsgs = 1]

\* The last step of a tracked call's wrapper: the metric is handed to
\* queueApiMetric.  Metrics are numbered in the order they are queued.
TrackedCallEnds ==
    /\ st.fetchWrappers > 0
    /\ hist.queued < MaxQueued
    /\ st' = queueApiMetric(st, fetchResolvedMetric(hist.queued + 1, BurstResponse))
    /\ hist' = [hist EXCEPT !.queued = @ + 1]
    /\ UNCHANGED calls

\* The batch queue under a burst of tracked calls: the threshold flush, the
\* batch timer and the settle timer's finalize as a later flush trigger.
NextBatch ==
    \/ TrackedCallEnds
    \/ ApiBatchTimer
    \/ SettleTimer

SpecBatch == InitConfigured /\ [][NextBatch]_vars

\* The same burst on a page whose message channel can start to throw.
NextBatchFault ==
    \/ TrackedCallEnds
    \/ ApiBatchTimer
    \/ SettleTimer
    \/ PostMessageBreaks

SpecBatchFault == InitConfigured /\ [][NextBatchFault]_vars

\* The vitals of a configured, sampled-in page: the paint, layout-shift and
\* long-task observers, the end of the TBT window, finalize by the settle
\* timer, and SPA navigation starting the next session.
NextVitals ==
    \/ PaintEntry
    \/ LayoutShift
    \/ LongTask
    \/ TbtStopTimer
    \/ PageLoad
    \/ SettleTimer
    \/ SpaNavigation

SpecVitals == InitConfigured /\ [][NextVitals]_vars

\* Between finalize and the deferred send: a tracked fetch that ends, the
\* resource snapshot timer, an SPA navigation.
NextSeal ==
    \/ PageLoad
    \/ SettleTimer
    \/ SnapshotTimer
    \/ SpaNavigation
    \/ IdleCallback
    \/ \E c \in CallIds : FetchCall(c)
    \/ \E c \in CallIds : FetchSettle(c)
    \/ \E c \in CallIds : FetchUrlBuilt(c)
    \/ \E c \in CallIds : FetchSized(c)

SpecSeal == InitConfigured /\ [][NextSeal]_vars

\* The configuration handshake against the 3 s timer set at script load.
NextConfig ==
    \/ Inject
    \/ Message
    \/ ConfigTimeout
    \/ PageLoad

SpecConfig == Init /\ [][NextConfig]_vars

\* The script has been injected and waits for its configuration.
InitInjected ==
    /\ \E readyState \in {"loading", "complete"} :
          st = runInjectedScript(InitPage(readyState))
    /\ calls = [c \in CallIds |-> NewCall]
    /\ hist = [InitHist EXCEPT !.injections = 1]

\* A PERF_MONITOR_CONFIG message with any payload reaches the listener; hist
\* keeps the payload as it was sent.
RawConfigMessage ==
    /\ st.messageListeners > 0
    /\ hist.configMsgs < MaxMsgs
    /\ \E payload \in RawPayloads :
       \E random \in Draws(~st.configReceived) :
          /\ st' = onMessage(st, [source |-> "window", isObject |-> TRUE,
                                   type |-> "PERF_MONITOR_CONFIG",
                                   hasPayload |-> TRUE, payload |-> payload], random)
          /\ hist' = [hist EXCEPT !.configMsgs = @ + 1, !.lastPayload = payload]
    /\ UNCHANGED calls

NextNormalize == RawConfigMessage

SpecNormalize == InitInjected /\ [][NextNormalize]_vars

-----------------------------------------------------------------------------
(* Buffered replay to the observers of a new session *)

Connected(s, type) ==
    CASE type = "paint" -> s.paintObserver
      [] type = "lcp" -> s.lcpObserver
      [] type = "shift" -> s.clsObserver
      [] type = "longtask" -> s.longTaskObserver

\* The callback of the observer of an entry type.
onEntries(s, type, entries) ==
    CASE type = "paint" -> onPaintEntries(s, entries)
      [] type = "lcp" -> onLcpEntries(s, entries)
      [] type = "shift" -> onLayoutShiftEntries(s, entries)
      [] type = "longtask" -> onLongTaskEntries(s, entries)

\* The browser delivers the buffered entries of a type to the observer that
\* subscribed with buffered: true, in one list.
BufferedReplay ==
    /\ \E type \in {"paint", "lcp", "shift", "longtask"} :
          /\ Connected(st, type)
          /\ Len(st.replay[type]) > 0
          /\ st' = onEntries([st EXCEPT !.replay[type] = <<>>], type,
                             [k \in DOMAIN st.replay[type] |-> st.replay[type][k].entry])
    /\ UNCHANGED <<calls, hist>>

NextReplay ==
    \/ PaintEntry
    \/ LcpEntries
    \/ LayoutShift
    \/ LongTask
    \/ SpaNavigation
    \/ BufferedReplay

SpecReplay == InitConfigured /\ [][NextReplay]_vars

-----------------------------------------------------------------------------
(* The pending queue across flushes, finalizes and resets *)

\* Tracked calls that have ended by the time the queue is looked at: two
\* short of the flush threshold.
QueuedAtStart == apiBatchMaxSize - 2

RECURSIVE queueBurst(_, _)
\* queueApiMetric for the calls n, n - 1, ... 1 of a burst, in order.
queueBurst(s, n) ==
    IF n = 0 THEN s
    ELSE queueApiMetric(queueBurst(s, n - 1), fetchResolvedMetric(n, BurstResponse))

\* Configured and sampled in, the first calls of a burst ended and queued.
InitQueue ==
    /\ \E readyState \in {"loading", "complete"} :
          st = queueBurst(acceptConfig(runInjectedScript(InitPage(readyState)),
                                       PayloadDefault, 0),
                          QueuedAtStart)
    /\ calls = [c \in CallIds |-> NewCall]
    /\ hist = [InitHist EXCEPT !.injections = 1, !.configMsgs = 1,
                               !.queued = QueuedAtStart]

\* The next call of the burst ends.
BurstCallEnds ==
    /\ hist.queued < QueuedAtStart + MaxPending + 1
    /\ TrackedCallEnds

NextQueue ==
    \/ BurstCallEnds
    \/ ApiBatchTimer
    \/ SettleTimer
    \/ SpaNavigation
    \/ BeforeUnload
    \/ PostMessageBreaks

SpecQueue == InitQueue /\ [][NextQueue]_vars

-----------------------------------------------------------------------------
(* The paint stream and the TBT window *)

\* Configured and sampled in, in a browser with or without 'longtask' entries.
InitPaint ==
    /\ \E readyState \in {"loading", "complete"}, supported \in BOOLEAN :
          st = acceptConfig(
                   runInjectedScript([InitPage(readyState) EXCEPT
                                          !.longTaskSupported = supported]),
                   PayloadDefault, 0)
    /\ calls = [c \in CallIds |-> NewCall]
    /\ hist = [InitHist EXCEPT !.injections = 1, !.configMsgs = 1]

NextPaint ==
    \/ PaintEntry
    \/ LongTask
    \/ TbtStopTimer
    \/ PageLoad
    \/ SettleTimer
    \/ SpaNavigation

SpecPaint == InitPaint /\ [][NextPaint]_vars

-----------------------------------------------------------------------------
(* The LCP stream and its finalize triggers *)

NextLcp ==
    \/ LcpEntries
    \/ VisibilityHidden
    \/ PageLoad
    \/ LcpFallbackTimer
    \/ SettleTimer
    \/ BeforeUnload
    \/ SpaNavigation

SpecLcp == InitConfigured /\ [][NextLcp]_vars

-----------------------------------------------------------------------------
(* The pending queue at the finalize triggers *)

\* The user starts to leave, 'beforeunload' is dispatched, and the host
\* page's own prompt keeps the user on the page.
UnloadCancelled ==
    /\ st.configReceived
    /\ hist.unloads = 0
    /\ hist.cancelled < MaxCancelled
    /\ st' = dispatchBeforeUnload(st)
    /\ hist' = [hist EXCEPT !.cancelled = @ + 1]
    /\ UNCHANGED calls

\* A tracked call of the host page ends, a few of them only.
PendingCallEnds ==
    /\ hist.queued < MaxPending
    /\ TrackedCallEnds

NextFlush ==
    \/ PendingCallEnds
    \/ ApiBatchTimer
    \/ PageLoad
    \/ SettleTimer
    \/ SpaNavigation
    \/ UnloadCancelled
    \/ BeforeUnload
    \/ IdleCallback

SpecFlush == InitConfigured /\ [][NextFlush]_vars

\* The step posts the pending queue of st as one batch of session i; with
\* first, ahead of any SESSION_COMPLETE of session i.
PostsPendingQueue(i, first) ==
    \E k \in (Len(st.posted) + 1)..Len(st'.posted) :
        /\ st'.posted[k].type = "PERF_MONITOR_API_BATCH"
        /\ st'.posted[k].sessionId = i
        /\ st'.posted[k].apiMetrics = st.apiQueue
        /\ first => \A j \in 1..k :
                        ~(st'.posted[j].type = "PERF_MONITOR_SESSION_COMPLETE"
                          /\ st'.posted[j].sessionId = i)

-----------------------------------------------------------------------------
(* The configuration handshake between the bridge and the script *)

ConfigsInFlight(s) ==
    Cardinality({k \in DOMAIN s.windowQueue : s.windowQueue[k] = "PERF_MONITOR_CONFIG"})

\* The content script runs: its listener is registered and the retry loop
\* starts with a first call of retry.
ContentScriptRuns ==
    /\ ~st.bridgeStarted
    /\ st' = startConfigRetries([st EXCEPT !.bridgeStarted = TRUE])
    /\ UNCHANGED <<calls, hist>>

\* The background injects the script the content script asked for.
InjectOnRequest ==
    /\ st.bridgeStarted
    /\ Inject

\* The 250 ms retry timer fires.  Message events are dispatched well within
\* 250 ms, so a retry finds fewer than MaxInFlight CONFIGs still queued.
ConfigRetryTimer ==
    /\ st.configRetryTimers > 0
    /\ ConfigsInFlight(st) < MaxInFlight
    /\ st' = retry([st EXCEPT !.configRetryTimers = @ - 1,
                             !.configRetryTimeoutId = "fired"])
    /\ UNCHANGED <<calls, hist>>

\* The oldest queued message, a CONFIG, is dispatched: to the script's
\* listener when there is one, and to the bridge's own.  An acknowledgement
\* the script posts is queued behind it.
DeliverConfig ==
    /\ Len(st.windowQueue) > 0
    /\ Head(st.windowQueue) = "PERF_MONITOR_CONFIG"
    /\ \E random \in Draws(st.messageListeners > 0 /\ ~st.configReceived) :
          LET s0 == [st EXCEPT !.windowQueue = Tail(@)]
              s1 == IF s0.messageListeners > 0
                    THEN onMessage(s0, [source |-> "window", isObject |-> TRUE,
                                        type |-> "PERF_MONITOR_CONFIG",
                                        hasPayload |-> TRUE,
                                        payload |-> PayloadDefault], random)
                    ELSE s0
              s2 == IF s1.ackCount > s0.ackCount
                    THEN [s1 EXCEPT !.windowQueue = Append(@, "PERF_MONITOR_CONFIG_ACK")]
                    ELSE s1
          IN  st' = onBridgeMessage(s2, "PERF_MONITOR_CONFIG")
    /\ hist' = [hist EXCEPT !.configMissed = @ \/ st.messageListeners = 0]
    /\ UNCHANGED calls

\* The oldest queued message, an acknowledgement, is dispatched; the
\* script's listener ignores it.
DeliverAck ==
    /\ Len(st.windowQueue) > 0
    /\ Head(st.windowQueue) = "PERF_MONITOR_CONFIG_ACK"
    /\ st' = onBridgeMessage([st EXCEPT !.windowQueue = Tail(@)], "PERF_MONITOR_CONFIG_ACK")
    /\ UNCHANGED <<calls, hist>>

NextBridge ==
    \/ ContentScriptRuns
    \/ InjectOnRequest
    \/ ConfigRetryTimer
    \/ DeliverConfig
    \/ DeliverAck

\* Timers fire and queued message events are dispatched.
SpecBridge ==
    /\ Init
    /\ [][NextBridge]_vars
    /\ WF_vars(ContentScriptRuns)
    /\ WF_vars(ConfigRetryTimer)
    /\ WF_vars(DeliverConfig)
    /\ WF_vars(DeliverAck)

-----------------------------------------------------------------------------
(* The background's persistence operations, one step per await *)

\* METRICS_CAPTURED arrives: saveSession starts.
SaveStart(o) ==
    /\ st.ops[o].kind = "idle"
    /\ hist.storeOps < MaxStoreOps
    /\ \E session \in SessionPayloads :
          st' = [st EXCEPT !.ops[o] = [IdleOp EXCEPT !.kind = "save", !.pc = "getActiveTag",
                                                     !.id = session.id,
                                                     !.session = session]]
    /\ hist' = [hist EXCEPT !.storeOps = @ + 1]
    /\ UNCHANGED calls

\* await getActiveTag(origin)
SaveGetActiveTag(o) ==
    /\ st.ops[o].kind = "save" /\ st.ops[o].pc = "getActiveTag"
    /\ st' = [st EXCEPT !.ops[o].pc = "put", !.ops[o].activeTag = getActiveTag(st)]
    /\ UNCHANGED <<calls, hist>>

\* await db.put(SESSIONS_STORE, ...)
SavePut(o) ==
    /\ st.ops[o].kind = "save" /\ st.ops[o].pc = "put"
    /\ st' = [st EXCEPT !.store[st.ops[o].id] =
                            savedRecord(st.ops[o].session, st.ops[o].activeTag),
                        !.ops[o] = IdleOp]
    /\ UNCHANGED <<calls, hist>>

\* API_BATCH_CAPTURED arrives: appendApiBatch starts.
AppendStart(o) ==
    /\ st.ops[o].kind = "idle"
    /\ hist.storeOps < MaxStoreOps
    /\ \E id \in StoreIds, apiMetrics \in MetricLists :
          st' = [st EXCEPT !.ops[o] = [IdleOp EXCEPT !.kind = "append", !.pc = "get",
                                                     !.id = id,
                                                     !.apiMetrics = apiMetrics]]
    /\ hist' = [hist EXCEPT !.storeOps = @ + 1]
    /\ UNCHANGED calls

\* await db.get(SESSIONS_STORE, sessionId): without a record the batch is dropped.
AppendGet(o) ==
    /\ st.ops[o].kind = "append" /\ st.ops[o].pc = "get"
    /\ st' = IF ~st.store[st.ops[o].id].present
             THEN [st EXCEPT !.ops[o] = IdleOp]
             ELSE [st EXCEPT !.ops[o].pc = "put",
                             !.ops[o].existing = st.store[st.ops[o].id]]
    /\ UNCHANGED <<calls, hist>>

\* await db.put(SESSIONS_STORE, updated)
AppendPut(o) ==
    /\ st.ops[o].kind = "append" /\ st.ops[o].pc = "put"
    /\ st' = [st EXCEPT !.store[st.ops[o].id] =
                            appendedRecord(st.ops[o].existing, st.ops[o].apiMetrics),
                        !.ops[o] = IdleOp]
    /\ UNCHANGED <<calls, hist>>

\* The options page sets the active tag of the origin (one origin: the
\* read and the write of the tag map are one step).
SetActiveTag ==
    /\ \E tag \in TagInputs :
          /\ normalizeTag(tag) # st.activeTag
          /\ st' = [st EXCEPT !.activeTag = normalizeTag(tag)]
    /\ UNCHANGED <<calls, hist>>

NextStore ==
    \/ SetActiveTag
    \/ \E o \in OpIds : SaveStart(o)
    \/ \E o \in OpIds : SaveGetActiveTag(o)
    \/ \E o \in OpIds : SavePut(o)
    \/ \E o \in OpIds : AppendStart(o)
    \/ \E o \in OpIds : AppendGet(o)
    \/ \E o \in OpIds : AppendPut(o)

SpecStore == Init /\ [][NextStore]_vars

\* METRICS_CAPTURED of a session that was not sent before: the capture script
\* posts SESSION_COMPLETE once for a session id.
SaveOnce(o) ==
    /\ SaveStart(o)
    /\ ~st.store[st'.ops[o].id].present
    /\ \A p \in OpIds : ~(st.ops[p].kind = "save" /\ st.ops[p].id = st'.ops[o].id)

NextAppend ==
    \/ \E o \in OpIds : SaveOnce(o)
    \/ \E o \in OpIds : SaveGetActiveTag(o)
    \/ \E o \in OpIds : SavePut(o)
    \/ \E o \in OpIds : AppendStart(o)
    \/ \E o \in OpIds : AppendGet(o)
    \/ \E o \in OpIds : AppendPut(o)

SpecAppend == Init /\ [][NextAppend]_vars

-----------------------------------------------------------------------------
(* Counting what has been posted and queued *)

IsSessionComplete(m) == m.type = "PERF_MONITOR_SESSION_COMPLETE"

IsApiBatch(m) == m.type = "PERF_MONITOR_API_BATCH"

SessionCompletes == {k \in DOMAIN st.posted : IsSessionComplete(st.posted[k])}

SessionCompletesOf(i) == {k \in SessionCompletes : st.posted[k].sessionId = i}

ScheduledOf(i) == {k \in DOMAIN st.idleQueue : st.idleQueue[k].id = i}

\* The metrics handed to queueApiMetric for call c, over every session's list.
MetricsOf(c) ==
    {ik \in SessionIds \X (1..MaxCalls) :
        /\ ik[2] \in DOMAIN st.apiMetrics[ik[1]]
        /\ st.apiMetrics[ik[1]][ik[2]].requestId = c}

MetricOf(c) ==
    LET ik == CHOOSE x \in MetricsOf(c) : TRUE IN st.apiMetrics[ik[1]][ik[2]]

\* The API batches posted so far, in order.
Batches(s) == SelectSeq(s.posted, IsApiBatch)

\* The request ids of a list of metrics.
IdsOf(metrics) == [k \in DOMAIN metrics |-> metrics[k].requestId]

RECURSIVE BatchedIds(_, _)
\* The ids of the first n batches, one after the other.
BatchedIds(s, n) ==
    IF n = 0 THEN <<>>
    ELSE BatchedIds(s, n - 1) \o IdsOf(Batches(s)[n].apiMetrics)

\* No batch timer has expired and the session is not finalized: nothing but
\* the size threshold can have flushed.
BurstUninterrupted == hist.expiries = 0 /\ ~st.finalized

RECURSIVE SumOfShifts(_)
\* The sum of the values of the entries without recent input.
SumOfShifts(entries) ==
    IF Len(entries) = 0 THEN 0
    ELSE SumOfShifts(Tail(entries))
         + (IF Head(entries).hadRecentInput THEN 0 ELSE Head(entries).value)

\* What a delivered long task [s, s + d] is worth with FCP at fcp: d - 50 when
\* positive, for a task that overlaps [fcp, fcp + 5000]; 0 before FCP is known.
BlockingOf(task) ==
    IF /\ task.fcp > 0
       /\ task.startTime < task.fcp + 5000
       /\ task.startTime + task.duration > task.fcp
       /\ task.duration > 50
    THEN task.duration - 50
    ELSE 0

RECURSIVE SumOfBlocking(_)
SumOfBlocking(tasks) ==
    IF Len(tasks) = 0 THEN 0
    ELSE SumOfBlocking(Tail(tasks)) + BlockingOf(Head(tasks))

NoTimerArmed(s) ==
    /\ s.settleTimers = 0 /\ s.snapshotTimers = 0
    /\ s.tbtStopTimeoutId = "null" /\ s.lcpFallbackTimeoutId = "null"
    /\ s.apiBatchTimerId = "null"

NoObserver(s) ==
    /\ ~s.paintObserver /\ ~s.lcpObserver /\ ~s.clsObserver /\ ~s.longTaskObserver
    /\ s.observersCreated = 0

NothingPatched(s) ==
    s.fetchWrappers = 0 /\ s.xhrWrappers = 0 /\ s.historyHooks = 0

TrackedFetchDone(c) ==
    calls[c].style = "fetch" /\ calls[c].tracked /\ calls[c].pc = "done"

-----------------------------------------------------------------------------
(* Claims *)

\* C1: in a page lifetime without SPA navigation, once a configuration has
\* been received exactly one PERF_MONITOR_SESSION_COMPLETE is emitted: after
\* beforeunload has happened and every deferred send has run, one is posted.
C1_ExactlyOneSessionComplete ==
    (/\ st.configReceived
     /\ hist.spaNavs = 0
     /\ hist.unloadsAfterConfig >= 1
     /\ Len(st.idleQueue) = 0)
    => Cardinality(SessionCompletes) = 1

\* C2: the finalize body runs at most once per session, however many
\* triggers fire, so at most one SESSION_COMPLETE is scheduled or posted for
\* a session id.
C2_FinalizeAtMostOnce ==
    \A i \in SessionIds :
        /\ st.finalizeRuns[i] <= 1
        /\ Cardinality(SessionCompletesOf(i)) + Cardinality(ScheduledOf(i)) <= 1

\* C2 witness: two triggers have acted on one session (its settle timer has
\* fired and beforeunload has run its listener) and the body ran once.
C2_Witness ==
    /\ st.captures = 1 /\ st.resets = 0
    /\ st.readyState = "complete" /\ st.settleTimers = 0
    /\ hist.unloadsAfterConfig = 1 /\ st.beforeunloadListeners = 0
    /\ st.finalizeRuns[st.sessionId] = 1

\* C3: after configuration, every SPA navigation event produces exactly one
\* finalize-then-reset cycle: the current session is finalized, a new session
\* with an unused id and kind 'spa' starts with zeroed vitals, empty metric
\* lists, finalized = false and recreated observers, and capture restarts.
C3_NavigationCycle ==
    [][(hist'.spaNavs = hist.spaNavs + 1 /\ st.configReceived)
       => /\ st'.resets = st.resets + 1
          /\ st'.finalizeRuns[st.sessionId] = 1
          /\ st'.sessionId \notin 0..(st.nextUuid - 1)
          /\ st'.navigationType = "spa"
          /\ st'.fcpValue = 0 /\ st'.lcpValue = 0 /\ st'.clsValue = 0 /\ st'.tbtValue = 0
          /\ st'.apiMetrics[st'.sessionId] = <<>> /\ st'.apiQueue = <<>>
          /\ ~st'.finalized
          /\ st'.observersCreated = st.observersCreated + 1
          /\ st'.captures = st.captures + 1]_vars

\* C4: before the first PERF_MONITOR_CONFIG message is received the engine
\* has created no observer, patched no primitive, armed no capture timer,
\* added no capture listener, and posted or scheduled neither an API batch
\* nor a SESSION_COMPLETE.
C4_IdleBeforeConfig ==
    hist.configMsgs = 0
    => /\ NoObserver(st)
       /\ NothingPatched(st)
       /\ NoTimerArmed(st)
       /\ st.lcpListeners = 0 /\ st.spaListeners = 0
       /\ st.beforeunloadListeners = 0 /\ st.loadListeners = 0
       /\ st.snapshotLoadListeners = 0
       /\ st.posted = <<>> /\ st.idleQueue = <<>>
       /\ st.captures = 0

\* C4 witness: the script is injected and the page has loaded, navigated and
\* begun to unload, all before any configuration.
C4_Witness ==
    /\ hist.configMsgs = 0
    /\ st.injectedGuard
    /\ st.readyState = "complete"
    /\ hist.spaNavs >= 1
    /\ hist.unloads >= 1

\* C5: a configuration message that arrives after the first never re-runs the
\* one-time setup, never starts a capture, and never resets or re-rolls the
\* current session.
C5_SetupOnFirstConfigOnly ==
    [][(hist'.configMsgs = hist.configMsgs + 1 /\ st.configReceived)
       => /\ st'.setups = st.setups
          /\ st'.captures = st.captures
          /\ st'.resets = st.resets
          /\ st'.sessionId = st.sessionId
          /\ st'.sampledIn = st.sampledIn
          /\ st'.finalized = st.finalized
          /\ st'.observersCreated = st.observersCreated
          /\ st'.lcpListeners = st.lcpListeners
          /\ st'.historyHooks = st.historyHooks
          /\ st'.fetchWrappers = st.fetchWrappers
          /\ st'.spaListeners = st.spaListeners
          /\ st'.beforeunloadListeners = st.beforeunloadListeners
          /\ st'.loadListeners = st.loadListeners
          /\ st'.settleTimers = st.settleTimers]_vars

\* C5 witness: a second configuration has been accepted and acknowledged.
C5_Witness ==
    /\ st.configReceived
    /\ st.ackCount >= 2
    /\ st.setups = 1

\* C6: every PERF_MONITOR_CONFIG message received from the same window has
\* caused exactly one PERF_MONITOR_CONFIG_ACK, posted by the handler that
\* received it.
C6_OneAckPerConfig == st.ackCount = hist.configMsgs

\* C7: each guarded side effect has happened at most once in the page
\* context: one READY message, one message listener, one fetch wrapper, one
\* XHR wrapper, one history hook, one set of LCP finalize listeners.
C7_GuardedOnce ==
    /\ st.readyCount <= 1
    /\ st.messageListeners <= 1
    /\ st.fetchWrappers <= 1
    /\ st.xhrWrappers <= 1
    /\ st.historyHooks <= 1
    /\ st.lcpListeners <= 1
    /\ st.spaListeners <= 1

\* C7 witness: the script was injected twice and startCapture ran twice (an
\* SPA navigation), with one wrapper installed.
C7_Witness ==
    /\ hist.injections >= 2
    /\ st.captures >= 2
    /\ st.fetchWrappers = 1
    /\ st.readyCount = 1

\* C8: a tracked fetch whose underlying call resolved with a response hands
\* that response to the call site, and exactly one metric is queued for it,
\* with the response's status and failed = false; none is queued earlier.
C8_FetchResolvedTransparent ==
    \A c \in CallIds :
        (calls[c].style = "fetch" /\ calls[c].tracked /\ calls[c].outcome.kind = "response")
        => IF calls[c].pc = "done"
           THEN /\ calls[c].received = calls[c].outcome
                /\ Cardinality(MetricsOf(c)) = 1
                /\ MetricOf(c).status = calls[c].outcome.response.status
                /\ MetricOf(c).failed = FALSE
           ELSE Cardinality(MetricsOf(c)) = 0

\* C8 witness: a tracked fetch that resolved with status 404 is done.
C8_Witness ==
    \E c \in CallIds :
        /\ TrackedFetchDone(c)
        /\ calls[c].outcome.kind = "response"
        /\ calls[c].outcome.response.status = 404

\* C9: a tracked fetch whose underlying call rejected with an error has
\* exactly one metric queued, with status 0, payload size 0 and failed = true,
\* and the wrapper rejects with the same error; the metric of a tracked
\* XMLHttpRequest that ended with status 0 has failed = true.
C9_FetchRejectedTransparent ==
    \A c \in CallIds :
        /\ (TrackedFetchDone(c) /\ calls[c].outcome.kind = "error")
           => /\ calls[c].received.kind = "error"
              /\ calls[c].received.error = calls[c].outcome.error
              /\ Cardinality(MetricsOf(c)) = 1
              /\ MetricOf(c).status = 0
              /\ MetricOf(c).payloadSize = 0
              /\ MetricOf(c).failed = TRUE
        /\ (calls[c].style = "xhr" /\ calls[c].tracked /\ calls[c].pc = "done"
            /\ calls[c].outcome.response.status = 0)
           => /\ Cardinality(MetricsOf(c)) = 1
              /\ MetricOf(c).failed = TRUE

\* C9 witness: a tracked fetch that rejected is done.
C9_Witness ==
    \E c \in CallIds :
        /\ TrackedFetchDone(c)
        /\ calls[c].outcome.kind = "error"
        /\ calls[c].outcome.error = "AbortError"

\* C10: the wrapped fetch hands the response to the call site without waiting
\* for instrumentation: once the underlying call of a tracked fetch has
\* resolved, the call site holds the response (it is not handed over in a
\* later step, after URL hashing and payload measurement).
C10_ResponseNotDelayed ==
    \A c \in CallIds :
        (calls[c].style = "fetch" /\ calls[c].tracked /\ calls[c].outcome.kind = "response")
        => calls[c].received = calls[c].outcome

\* C11: a wrapped fetch or XMLHttpRequest send is tracked only if, when the
\* call starts, a configuration is present, its apiTrackingEnabled is true and
\* the current session was sampled in; a call that is not tracked gets the
\* original primitive's result and never has a metric queued for it.
C11_TrackOnlyWhenEnabled ==
    [][\A c \in CallIds :
          /\ (calls[c].pc = "new" /\ calls'[c].pc # "new" /\ calls'[c].tracked)
             => (~st.config.isNull /\ st.config.apiTrackingEnabled /\ st.sampledIn)
          /\ (calls[c].pc # "new" => calls'[c].tracked = calls[c].tracked)
          /\ ~calls'[c].tracked
             => /\ MetricsOf(c)' = {}
                /\ calls'[c].pc \in {"new", "inflight", "done"}
                /\ calls'[c].pc = "done" => calls'[c].received = calls'[c].outcome]_vars

\* C11 witness: with the wrappers installed and the session sampled in, a
\* call made while the configuration has API tracking off is done, untracked.
C11_Witness ==
    \E c \in CallIds :
        /\ calls[c].pc = "done" /\ ~calls[c].tracked
        /\ st.fetchWrappers > 0 /\ st.sampledIn
        /\ ~st.config.isNull /\ ~st.config.apiTrackingEnabled
        /\ hist.configMsgs = 1

\* C12: in a burst that starts with an empty queue and that no timer expiry
\* interrupts, nothing is emitted before the 20th enqueue, which emits one
\* batch of the first 20 metrics in its own step; with 25 queued the next
\* flush trigger (the batch timer or finalize) emits the remaining 5 as one
\* second batch; batches and queue together hold each metric exactly once.
C12_BurstOfTwentyFive ==
    [][/\ BurstUninterrupted'
          => IF hist'.queued < 20
             THEN /\ Batches(st') = <<>>
                  /\ IdsOf(st'.apiQueue) = [k \in 1..hist'.queued |-> k]
             ELSE /\ Len(Batches(st')) = 1
                  /\ IdsOf(Batches(st')[1].apiMetrics) = [k \in 1..20 |-> k]
                  /\ IdsOf(st'.apiQueue) = [k \in 1..(hist'.queued - 20) |-> 20 + k]
       /\ (BurstUninterrupted /\ hist.queued = 25 /\ ~BurstUninterrupted')
          => /\ Len(Batches(st')) = 2
             /\ IdsOf(Batches(st')[2].apiMetrics) = [k \in 1..5 |-> 20 + k]
             /\ st'.apiQueue = <<>>
       /\ BatchedIds(st', Len(Batches(st'))) \o IdsOf(st'.apiQueue)
             = [k \in 1..hist'.queued |-> k]]_vars

\* C12 witness: 25 metrics were queued, then the batch timer expired: two
\* batches, of 20 and of 5.
C12_Witness ==
    /\ hist.queued = 25 /\ hist.expiries = 1
    /\ Len(Batches(st)) = 2
    /\ Len(Batches(st)[1].apiMetrics) = 20
    /\ Len(Batches(st)[2].apiMetrics) = 5
    /\ st.apiQueue = <<>>

\* C13: at most one batch timer is outstanding, and the script's handle is
\* set exactly while it is; queueApiMetric arms a timer only when none is
\* pending, with the first unflushed item, and later items leave that timer
\* alone; every emitted batch leaves no timer outstanding.
C13_OneBatchTimer ==
    [][/\ st'.apiBatchTimers <= 1
       /\ (st'.apiBatchTimerId = "pending") = (st'.apiBatchTimers = 1)
       /\ st'.batchTimersArmed > st.batchTimersArmed
          => /\ st.apiBatchTimers = 0
             /\ st.apiQueue = <<>> /\ Len(st'.apiQueue) = 1
             /\ st'.batchTimersArmed = st.batchTimersArmed + 1
       /\ (hist'.queued = hist.queued + 1 /\ st.apiBatchTimers = 1)
          => st'.batchTimersArmed = st.batchTimersArmed
       /\ Len(Batches(st')) > Len(Batches(st))
          => st'.apiBatchTimers = 0 /\ st'.apiBatchTimerId = "null"]_vars

\* C13 witness: a second timer was armed after the first one's flush, and
\* three items have been queued behind it.
C13_Witness ==
    /\ st.batchTimersArmed = 2
    /\ st.apiBatchTimers = 1
    /\ Len(st.apiQueue) = 3
    /\ Len(Batches(st)) = 1

\* C14: when emitting a batch throws, flushApiQueue leaves the pending queue
\* empty and no batch timer pending, posts nothing, and returns normally (a
\* finalize that called it still schedules its SESSION_COMPLETE); the
\* session's apiMetrics list still holds every metric queued, the dropped
\* batch included.
C14_FlushFailureContained ==
    [][st'.flushFailures > st.flushFailures
       => /\ st'.apiQueue = <<>>
          /\ st'.apiBatchTimerId = "null" /\ st'.apiBatchTimers = 0
          /\ Batches(st') = Batches(st)
          /\ \A k \in DOMAIN st.apiQueue :
                \E j \in DOMAIN st'.apiMetrics[st'.sessionId] :
                    st'.apiMetrics[st'.sessionId][j] = st.apiQueue[k]
          /\ IdsOf(st'.apiMetrics[st'.sessionId]) = [k \in 1..hist'.queued |-> k]
          /\ (st'.finalized /\ ~st.finalized)
             => Len(st'.idleQueue) = Len(st.idleQueue) + 1]_vars

\* C14 witness: the channel throws and the threshold flush of 20 metrics has
\* failed: nothing was posted, the queue is empty, the list holds all 20.
C14_Witness ==
    /\ st.postMessageThrows
    /\ st.flushFailures = 1
    /\ Batches(st) = <<>>
    /\ st.apiQueue = <<>>
    /\ Len(st.apiMetrics[st.sessionId]) = 20

\* C15: buildApiUrl returns a value for every raw URL, flag pair, digest
\* availability and digest outcome.  Privacy off: the URL cut before its first
\* '?' when redaction is on, the URL itself when it is off.  Privacy on:
\* 'sha256:' and the hex digest of the (cut, when redaction is on) URL when
\* the digest exists and succeeds, 'sha256:unsupported' when it does not
\* exist, 'sha256:error' when it throws; and never the raw URL.
C15_BuildApiUrlTotal ==
    \A c \in CallIds :
        calls[c].pc = "urlBuilt"
        => LET raw == calls[c].rawUrl
               url == calls[c].url
               redact == st.config.redactQueryParams
               privacy == st.config.privacyMode
               n == CHOOSE m \in 0..Len(raw) :
                        /\ \A k \in 1..m : raw[k] # "?"
                        /\ m = Len(raw) \/ raw[m + 1] = "?"
               cut == [k \in 1..n |-> raw[k]]
               digested == IF redact THEN cut ELSE raw
           IN  /\ (redact /\ ~privacy) => url = cut
               /\ (~redact /\ ~privacy) => url = raw
               /\ privacy
                  => /\ url # raw
                     /\ url[1] \in {"sha256:", "sha256:unsupported", "sha256:error"}
                     /\ (st.digestAvailable /\ calls[c].digestOutcome = "digest")
                        => url = <<"sha256:">> \o sha256Hex(digested)
                     /\ ~st.digestAvailable => url = <<"sha256:unsupported">>
                     /\ (st.digestAvailable /\ calls[c].digestOutcome = "throws")
                        => url = <<"sha256:error">>

\* C15 witness: with redaction on and privacy off, a URL with a query that
\* itself holds a '?' was cut before the first one.
C15_Witness ==
    \E c \in CallIds :
        /\ calls[c].pc = "urlBuilt"
        /\ st.config.redactQueryParams /\ ~st.config.privacyMode
        /\ calls[c].rawUrl = <<"a", "?", "?">>
        /\ calls[c].url = <<"a">>

\* C16: sampling gates API-metric recording only: when a capture starts (the
\* first configuration, or an SPA navigation) and the session is sampled out,
\* the four vitals observers are still subscribed and the finalize triggers
\* (the beforeunload listener, and the settle timer or the load listener that
\* arms it) are still in place.
C16_SampledOutStillCaptures ==
    [][(/\ (~st.configReceived /\ st'.configReceived) \/ st'.resets > st.resets
        /\ ~st'.sampledIn)
       => /\ st'.paintObserver /\ st'.lcpObserver
          /\ st'.clsObserver /\ st'.longTaskObserver
          /\ st'.beforeunloadListeners > 0
          /\ st'.settleTimers > 0 \/ st'.loadListeners > 0]_vars

\* C17: a session's CLS is the sum of the values of the layout-shift entries
\* delivered to it whose hadRecentInput is false, in the running value and in
\* the snapshot finalize takes, and it never decreases within a session;
\* entries 0.01, 0.02 (recent input), 0.03 give 0.04.
C17_ClsIsSumWithoutInput ==
    [][/\ st'.clsValue = SumOfShifts(hist'.layoutShifts[st'.sessionId])
       /\ \A k \in DOMAIN st'.idleQueue :
             st'.idleQueue[k].webVitals.cls
                = SumOfShifts(hist'.layoutShifts[st'.idleQueue[k].id])
       /\ st'.sessionId = st.sessionId => st'.clsValue >= st.clsValue]_vars

\* C17 witness: the session was finalized after its observer was handed
\* 0.01, 0.02 (recent input), 0.03, and its snapshot has CLS 0.04.
C17_Witness ==
    /\ Len(st.idleQueue) = 1
    /\ Len(hist.layoutShifts[st.idleQueue[1].id]) = 3
    /\ hist.layoutShifts[st.idleQueue[1].id][2].hadRecentInput
    /\ st.idleQueue[1].webVitals.cls = 4

\* C18: a session's TBT is the sum, over the long tasks delivered to it, of
\* max(0, d - 50) for a task delivered after FCP that overlaps
\* [FCP, FCP + 5000] (s < FCP + 5000 and s + d > FCP), and of 0 for a task
\* outside the window or delivered before FCP; with FCP = 1000, [1100, 1300]
\* adds 150 and [7000, 7100] adds 0.
C18_TbtWindow ==
    [][/\ st'.tbtValue = SumOfBlocking(hist'.longTasks[st'.sessionId])
       /\ \A k \in DOMAIN st'.idleQueue :
             st'.idleQueue[k].webVitals.tbt
                = SumOfBlocking(hist'.longTasks[st'.idleQueue[k].id])
       /\ (st'.tbtValue # st.tbtValue /\ st'.sessionId = st.sessionId)
          => st.fcpTimestamp > 0]_vars

\* C18 witness: with FCP at 1000, a task straddling the start of the window
\* was counted in full and the tasks [1100, 1300] and [7000, 7100] added 150.
C18_Witness ==
    /\ st.fcpTimestamp = 1000
    /\ st.tbtValue = 300
    /\ \E k \in DOMAIN hist.longTasks[st.sessionId] :
          /\ hist.longTasks[st.sessionId][k].startTime = 7000
          /\ hist.longTasks[st.sessionId][k].fcp = 1000
    /\ \E k \in DOMAIN hist.longTasks[st.sessionId] :
          /\ hist.longTasks[st.sessionId][k].startTime = 900
          /\ hist.longTasks[st.sessionId][k].duration = 200
          /\ hist.longTasks[st.sessionId][k].fcp = 1000

\* C19: the handler in which finalizeSession runs (settle timer, beforeunload
\* or SPA navigation) posts no PERF_MONITOR_SESSION_COMPLETE: it leaves the
\* payload scheduled, and a SESSION_COMPLETE is only ever posted by a later
\* step that takes a scheduled payload.
C19_CompleteIsDeferred ==
    [][/\ (\E i \in SessionIds : st'.finalizeRuns[i] > st.finalizeRuns[i])
          => /\ SelectSeq(st'.posted, IsSessionComplete)
                   = SelectSeq(st.posted, IsSessionComplete)
             /\ Len(st'.idleQueue) > Len(st.idleQueue)
       /\ Len(SelectSeq(st'.posted, IsSessionComplete))
             > Len(SelectSeq(st.posted, IsSessionComplete))
          => /\ Len(st'.idleQueue) = Len(st.idleQueue) - 1
             /\ st'.finalizeRuns = st.finalizeRuns]_vars

\* C19 witness: beforeunload has finalized the session; its payload is
\* scheduled and nothing has been posted yet.
C19_Witness ==
    /\ hist.unloadsAfterConfig = 1
    /\ st.finalizeRuns[st.sessionId] = 1
    /\ Len(st.idleQueue) = 1
    /\ SessionCompletes = {}

\* C20: the PERF_MONITOR_SESSION_COMPLETE that is delivered carries the
\* session as it was when finalizeSession ran: its API-metric list is the list
\* the session had at that moment, whatever happened between finalize and the
\* deferred send (a tracked call ending, the snapshot timer, an SPA reset).
C20_PayloadSealedAtFinalize ==
    \A k \in SessionCompletes :
        st.posted[k].apiMetrics = st.posted[k].session.apiMetricsAtFinalize

\* C21: when a handler has run finalizeSession (and has not gone on to start
\* the next session), no timer armed during the session is still pending
\* (TBT window, LCP fallback, batch flush, settle delay, resource snapshot)
\* and the four observers are disconnected.
C21_FinalizeStopsEverything ==
    [][(/\ \E i \in SessionIds : st'.finalizeRuns[i] > st.finalizeRuns[i]
        /\ st'.resets = st.resets)
       => /\ st'.tbtStopTimeoutId = "null"
          /\ st'.lcpFallbackTimeoutId = "null"
          /\ st'.apiBatchTimerId = "null" /\ st'.apiBatchTimers = 0
          /\ st'.settleTimers = 0
          /\ st'.snapshotTimers = 0
          /\ ~st'.paintObserver /\ ~st'.lcpObserver
          /\ ~st'.clsObserver /\ ~st'.longTaskObserver]_vars

\* C22: a metric belongs to the session that was current when its call
\* started: it is in that session's API list only, and every API batch that
\* carries it carries that session's id, even when the call ends after an SPA
\* reset.
C22_MetricsOwnedBySession ==
    /\ \A i \in SessionIds : \A k \in DOMAIN st.apiMetrics[i] :
          calls[st.apiMetrics[i][k].requestId].session = i
    /\ \A b \in DOMAIN st.posted :
          IsApiBatch(st.posted[b])
          => \A k \in DOMAIN st.posted[b].apiMetrics :
                calls[st.posted[b].apiMetrics[k].requestId].session = st.posted[b].sessionId

\* C23: when the 3 s timer has expired without a configuration, the engine
\* stays idle for the rest of the page context: a PERF_MONITOR_CONFIG that
\* arrives afterwards starts no capture.
C23_IdleAfterConfigTimeout ==
    st.warned
    => /\ st.captures = 0 /\ st.setups = 0
       /\ NoObserver(st) /\ NothingPatched(st)
       /\ st.beforeunloadListeners = 0 /\ st.settleTimers = 0 /\ st.loadListeners = 0

\* C24: once a configuration has been stored, none of its fields changes for
\* the rest of the page context.
C24_ConfigImmutable ==
    [][~st.config.isNull => st'.config = st.config]_vars

\* C25: after a CONFIG message the stored sampling rate is in [0, 1]: the
\* payload's rate when that is finite and in range, and 1 when it is
\* non-finite or out of range (-1, 2, NaN); the stored mode is 'dev' for 'dev'
\* and 'silent' otherwise; a flag is stored true only for the boolean true.
C25_ConfigNormalized ==
    hist.configMsgs > 0
    => LET sent == hist.lastPayload
           inRange == sent.samplingRate.finite
                      /\ sent.samplingRate.v >= 0 /\ sent.samplingRate.v <= 100
       IN  /\ st.config.samplingRate >= 0 /\ st.config.samplingRate <= 100
           /\ st.config.samplingRate = IF inRange THEN sent.samplingRate.v ELSE 100
           /\ st.config.extensionMode = IF sent.extensionMode = "dev" THEN "dev" ELSE "silent"
           /\ st.config.apiTrackingEnabled = (sent.apiTrackingEnabled = "true")
           /\ st.config.redactQueryParams = (sent.redactQueryParams = "true")
           /\ st.config.privacyMode = (sent.privacyMode = "true")

\* C26: in every persisted session record no two API metrics share a request
\* id, whatever saveSession and appendApiBatch calls have run, also when the
\* session payload itself holds duplicates.
C26_NoDuplicateRequestIds ==
    \A i \in StoreIds :
        st.store[i].present =>
            \A j, k \in DOMAIN st.store[i].apiMetrics :
                j # k => st.store[i].apiMetrics[j].requestId # st.store[i].apiMetrics[k].requestId

\* C27: saveSession reads the tag that is active for the origin while it runs
\* (the baseline tag when none is set) and stores the record under that tag,
\* never under the payload's own versionTag; a later change of the active tag
\* leaves every stored record as it is.
C27_SavedUnderActiveTag ==
    [][/\ \A o \in OpIds :
            (st.ops[o].kind = "save" /\ st.ops[o].pc = "getActiveTag" /\ st'.ops[o].pc = "put")
                => st'.ops[o].activeTag = (IF st.activeTag = "" THEN "baseline" ELSE st.activeTag)
       /\ \A o \in OpIds :
            (st.ops[o].kind = "save" /\ st.ops[o].pc = "put" /\ st'.ops[o].kind = "idle")
                => /\ st'.store[st.ops[o].id].present
                   /\ st'.store[st.ops[o].id].versionTag = st.ops[o].activeTag
                   /\ st'.store[st.ops[o].id].versionTag \in {"baseline", "v1"}
       /\ st'.activeTag # st.activeTag => st'.store = st.store]_vars

\* A session captured with its own tag was stored under "v1", the tag then
\* active, and the active tag has since gone back to the baseline.
C27_Witness ==
    /\ st.store[1].present
    /\ st.store[1].versionTag = "v1"
    /\ st.activeTag = "baseline"
    /\ \A o \in OpIds : st.ops[o].kind = "idle"

\* C28: the bridge posts a CONFIG as soon as it starts and keeps one retry
\* timer pending while no acknowledgement has been observed, so a capture
\* script that loads later eventually holds a configuration; once the
\* acknowledgement is observed no further CONFIG is posted and no retry timer
\* is pending.
C28_RetryUntilAck ==
    /\ [][(~st.bridgeStarted /\ st'.bridgeStarted)
            => ConfigsInFlight(st') = ConfigsInFlight(st) + 1]_vars
    /\ []((st.bridgeStarted /\ ~st.configAcked)
            => (st.configRetryTimers = 1 /\ st.configRetryTimeoutId = "pending"))
    /\ (st.injectedGuard ~> ~st.config.isNull)
    /\ []((st.configAcked)
            => (st.configRetryTimers = 0 /\ st.configRetryTimeoutId = "null"))
    /\ [][st.configAcked => ConfigsInFlight(st') <= ConfigsInFlight(st)]_vars

\* The first CONFIG was dispatched before the script was there; a retry
\* reached the script, and its acknowledgement has stopped the loop.
C28_Witness ==
    /\ hist.configMissed
    /\ st.configAcked
    /\ st.injectedGuard
    /\ ~st.config.isNull
    /\ st.windowQueue = <<>>

\* C29: a step that finalizes a session whose pending queue is not empty
\* posts that queue in a batch with that session's id, before the session's
\* SESSION_COMPLETE; and every 'beforeunload' posts the pending queue, also
\* when the session is already finalized.
C29_PendingQueueFlushed ==
    [][/\ \A i \in SessionIds :
            (st'.finalizeRuns[i] > st.finalizeRuns[i] /\ st.apiQueue # <<>>)
                => PostsPendingQueue(i, TRUE)
       /\ ((hist'.unloads > hist.unloads \/ hist'.cancelled > hist.cancelled)
            /\ st.apiQueue # <<>>)
                => PostsPendingQueue(st.sessionId, FALSE)]_vars

\* C30: every LCP entry list delivered sets the LCP value to the time of its
\* last entry; while LCP is finalized the observer is disconnected, and until
\* the session is reset no step, a further finalizeLcp call included, changes
\* the LCP value, the observer or the finalized flag.
C30_LcpFrozenOnceFinalized ==
    /\ [][Len(hist'.lcpDelivered) > Len(hist.lcpDelivered)
            => LET entries == hist'.lcpDelivered[Len(hist'.lcpDelivered)]
               IN  st'.lcpValue = entries[Len(entries)]]_vars
    /\ [](st.lcpFinalized => ~st.lcpObserver)
    /\ [][(st.lcpFinalized /\ st'.resets = st.resets)
            => /\ st'.lcpValue = st.lcpValue
               /\ st'.lcpObserver = st.lcpObserver
               /\ st'.lcpFinalized]_vars

\* A later list has overwritten 2500 with 1200, LCP was finalized, and
\* 'beforeunload' has called finalizeLcp in the same session.
C30_Witness ==
    /\ st.lcpFinalized
    /\ st.resets = 0
    /\ hist.unloads = 1
    /\ hist.lcpDelivered = <<(<<1200, 2500>>), (<<1200>>)>>
    /\ st.lcpValue = 1200

\* C31: the first list with a 'first-contentful-paint' entry sets FCP to that
\* entry's time, disconnects the paint observer and, when the long-task
\* observer is connected, arms the 5 s timer (none otherwise); from then on
\* FCP does not change in the session.  When the timer fires the long-task
\* observer is disconnected, and without a long-task observer TBT does not
\* change in the session.
C31_FcpOnceThenTbtWindow ==
    /\ [][(Len(hist'.paintDelivered) > Len(hist.paintDelivered)
            /\ \E k \in 1..2 :
                  /\ k <= Len(hist'.paintDelivered[Len(hist'.paintDelivered)])
                  /\ hist'.paintDelivered[Len(hist'.paintDelivered)][k].name
                        = "first-contentful-paint")
            => /\ st.fcpValue = 0
               /\ st'.fcpValue = 1000
               /\ ~st'.paintObserver
               /\ st'.tbtStopTimeoutId
                    = (IF st.longTaskObserver THEN "pending" ELSE st.tbtStopTimeoutId)
               /\ ~st.longTaskObserver => st'.tbtStopTimeoutId = "null"]_vars
    /\ [][(st.fcpValue # 0 /\ st'.resets = st.resets)
            => (st'.fcpValue = st.fcpValue /\ ~st'.paintObserver)]_vars
    /\ [][(st.tbtStopTimeoutId = "pending" /\ st'.tbtStopTimeoutId = "fired")
            => ~st'.longTaskObserver]_vars
    /\ [][(~st.longTaskObserver /\ st'.resets = st.resets)
            => (st'.tbtValue = st.tbtValue /\ ~st'.longTaskObserver)]_vars

\* FCP was recorded from the second paint list, long tasks were counted in
\* its window, and the 5 s timer has ended the long-task observation.
C31_Witness ==
    /\ Len(hist.paintDelivered) = 2
    /\ Len(hist.paintDelivered[1]) = 1
    /\ st.fcpValue = 1000
    /\ st.tbtValue > 0
    /\ st.tbtStopTimeoutId = "fired"
    /\ ~st.longTaskObserver
    /\ ~st.finalized

\* C32: the cached flag of every recorded metric, of a fetch or an
\* XMLHttpRequest, failed or not, is true exactly when the response has an
\* x-cache header equal to HIT in any case, or is opaque, or the metric's
\* payload size is zero.
C32_CachedFlag ==
    \A c \in CallIds :
        Cardinality(MetricsOf(c)) = 1
        => LET response == calls[c].outcome.response
           IN  MetricOf(c).cached
                 = \/ (response.xCache # "" /\ toUpperCase(response.xCache) = "HIT")
                   \/ response.type = "opaque"
                   \/ MetricOf(c).payloadSize = 0

\* C33: between handlers the pending queue holds fewer than 20 items, each
\* of them is in the current session's apiMetrics list, and the queue is
\* non-empty exactly when a batch timer is pending.
C33_QueueInvariants ==
    /\ Len(st.apiQueue) < apiBatchMaxSize
    /\ \A k \in DOMAIN st.apiQueue :
          \E j \in DOMAIN st.apiMetrics[st.sessionId] :
              st.apiMetrics[st.sessionId][j] = st.apiQueue[k]
    /\ (st.apiQueue # <<>>) = (st.apiBatchTimerId = "pending" /\ st.apiBatchTimers = 1)
    /\ (st.apiQueue = <<>>) = (st.apiBatchTimerId = "null" /\ st.apiBatchTimers = 0)

\* The settle timer finalized the first session, metrics were queued after
\* that, an SPA navigation reset the state, and a metric is pending in the
\* second session.
C33_Witness ==
    /\ st.resets = 1
    /\ st.finalizeRuns[1] = 1
    /\ Len(st.apiMetrics[1]) > Len(st.idleQueue[1].apiMetricsAtFinalize)
    /\ Len(st.apiQueue) = 1
    /\ st.apiBatchTimers = 1

\* C34: every metric passed to queueApiMetric has been posted in an API
\* batch or in the SESSION_COMPLETE of its session, or is still on its way:
\* pending in the queue, or in a session whose SESSION_COMPLETE is yet to be
\* built or posted.
C34_NoMetricLost ==
    \A i \in SessionIds :
        \A k \in DOMAIN st.apiMetrics[i] :
            LET metric == st.apiMetrics[i][k]
            IN  \/ \E b \in DOMAIN st.posted :
                      /\ st.posted[b].type = "PERF_MONITOR_SESSION_COMPLETE"
                            => st.posted[b].sessionId = i
                      /\ \E j \in DOMAIN st.posted[b].apiMetrics :
                            st.posted[b].apiMetrics[j] = metric
                \/ i = st.sessionId /\ \E q \in DOMAIN st.apiQueue : st.apiQueue[q] = metric
                \/ i = st.sessionId /\ ~st.finalized
                \/ \E q \in DOMAIN st.idleQueue : st.idleQueue[q].id = i

\* C35: a settle timer that fires finalizes no session other than the one
\* it was armed in.
C35_SettleTimerOwnSession ==
    [][Len(st'.settleArmedIn) < Len(st.settleArmedIn)
        => \A i \in SessionIds :
              st'.finalizeRuns[i] > st.finalizeRuns[i] => i = Head(st.settleArmedIn)]_vars

\* C36: once a configuration has been received, every SPA navigation starts
\* a new session with a sampling decision of its own, also when the session
\* before it was sampled out.
C36_FreshSamplingOnSpaNavigation ==
    [][(hist'.spaNavs > hist.spaNavs /\ st.configReceived)
        => /\ st'.resets = st.resets + 1
           /\ st'.sessionId # st.sessionId]_vars

\* C37: after an SPA reset each vital of the new session that has a value
\* comes from an entry that occurred in the new session: FCP from a
\* first-contentful-paint entry, LCP from an LCP entry, CLS from a layout
\* shift and TBT from a long task of that session.
C37_VitalsOnlyAfterReset ==
    st.resets > 0
    => /\ st.fcpValue # 0
            => \E k \in DOMAIN st.timeline.paint :
                  /\ st.timeline.paint[k].session = st.sessionId
                  /\ st.timeline.paint[k].entry.name = "first-contentful-paint"
       /\ st.lcpValue # 0
            => \E k \in DOMAIN st.timeline.lcp :
                  st.timeline.lcp[k].session = st.sessionId
       /\ st.clsValue # 0
            => \E k \in DOMAIN st.timeline.shift :
                  st.timeline.shift[k].session = st.sessionId
       /\ st.tbtValue # 0
            => \E k \in DOMAIN st.timeline.longtask :
                  st.timeline.longtask[k].session = st.sessionId

\* The distinct request ids of a metric list.
RequestIdSet(metrics) == {metrics[k].requestId : k \in DOMAIN metrics}

\* C38: persistence operations on one session that interleave at their
\* awaits lose nothing: when an appendApiBatch puts its record, every request
\* id the stored record of that session held just before the put is still in
\* the stored record, together with the ids of the batch.
C38_ConcurrentAppendsKeepIds ==
    [][\A o \in OpIds :
          (st.ops[o].kind = "append" /\ st.ops[o].pc = "put" /\ st'.ops[o].kind = "idle")
              => /\ st'.store[st.ops[o].id].present
                 /\ RequestIdSet(st.store[st.ops[o].id].apiMetrics)
                        \subseteq RequestIdSet(st'.store[st.ops[o].id].apiMetrics)
                 /\ RequestIdSet(st.ops[o].apiMetrics)
                        \subseteq RequestIdSet(st'.store[st.ops[o].id].apiMetrics)]_vars

\* C39: an appendApiBatch that finds no stored record for its session id
\* leaves the store as it is and keeps nothing of the batch; one that finds a
\* record puts a record to which the same batch can be appended again
\* without changing it.
C39_AppendDropsOrIsIdempotent ==
    [][\A o \in OpIds :
          /\ (st.ops[o].kind = "append" /\ st.ops[o].pc = "get" /\ st'.ops[o].kind = "idle")
                => /\ ~st.store[st.ops[o].id].present
                   /\ st'.store = st.store
                   /\ st'.ops[o] = IdleOp
          /\ (st.ops[o].kind = "append" /\ st.ops[o].pc = "get" /\ st'.ops[o].pc = "put")
                => /\ st.store[st.ops[o].id].present
                   /\ st'.store = st.store
          /\ (st.ops[o].kind = "append" /\ st.ops[o].pc = "put" /\ st'.ops[o].kind = "idle")
                => appendedRecord(st'.store[st.ops[o].id], st.ops[o].apiMetrics)
                      = st'.store[st.ops[o].id]]_vars

\* A batch with request ids 1 and 2 was appended to a record saved with
\* request id 1, and the same batch is about to be put a second time; the
\* other session has no record.
C39_Witness ==
    \E o \in OpIds :
        /\ st.ops[o].kind = "append" /\ st.ops[o].pc = "put"
        /\ st.ops[o].apiMetrics = <<StoredMetric(1, 404), StoredMetric(2, 200)>>
        /\ st.ops[o].existing = st.store[st.ops[o].id]
        /\ st.store[st.ops[o].id].apiMetrics = <<StoredMetric(1, 200), StoredMetric(2, 200)>>
        /\ \E i \in StoreIds : ~st.store[i].present

====
